---- MODULE Spec2Model ----
(***************************************************************************)
(* Vecinity back end: a model of the Express route handlers and of the     *)
(* Sequelize models User, Category and Report they work on.                *)
(*                                                                         *)
(* Persistence contract assumed of the ORM: findByPk / findOne load a row  *)
(* into an instance, instance.save() runs the validators the model         *)
(* declares and, when they pass, writes the instance back to its row;      *)
(* a validator that throws rejects save(), asyncHandler forwards the       *)
(* error to errorHandler and the request ends with status 500 and no       *)
(* write.  A handler runs start to finish as one step, except where a      *)
(* section below splits it at its awaits to interleave requests.           *)
(*                                                                         *)
(* JavaScript values are typed as follows: a user id is a positive         *)
(* integer and 0 stands for undefined; an absent string is "undefined",    *)
(* a NULL column is "null" (strings) or NoDate (dates).                    *)
(***************************************************************************)
EXTENDS Integers, Sequences, FiniteSets, TLC

VARIABLES users, categories, reports, seq, tokens, now, last, pending, files

vars == <<users, categories, reports, seq, tokens, now, last, pending, files>>

(***************************************************************************)
(* Bounds of the model.                                                    *)
(***************************************************************************)
MaxUsers == 3
MaxReports == 1
MaxNow == 10
MaxHistorial == 3
MaxPending == 2
MaxCategories == 4
MaxListado == 5
MaxVisitas == 2
MaxUploads == 2
MaxUbicados == 2

(***************************************************************************)
(* Values.                                                                 *)
(***************************************************************************)
Undefined == "undefined"
Null == "null"
NoDate == -1
NoUser == 0

Roles == {"usuario", "admin_operativo", "admin_general", "superadmin"}
Estatus == {"nuevo", "en_proceso", "resuelto", "cerrado"}

SuperadminEmail == "admin@vecinity.com"
Emails == {SuperadminEmail, "baja@vecinity.com", "ana@vecinity.com", "beto@vecinity.com"}
Passwords == {"admin123", "secreto1"}
ShortPassword == "abc"
RegisterPasswords == {"secreto1", ShortPassword}
ResetTokens == {"7f3a"}

(***************************************************************************)
(* User model.                                                             *)
(***************************************************************************)
\* bcrypt.hash: one-way, bcrypt.compare recognises the plaintext it came from
bcryptHash(password) == "$2a$" \o password

\* crypto.createHash('sha256').update(t).digest('hex')
sha256(t) == "sha256:" \o t

ResetExpireMinutes == 10

\* hooks.beforeCreate of User: the password is always hashed on insert
UserBeforeCreate(user) == [user EXCEPT !.password = bcryptHash(user.password)]

\* a beforeUpdate hook that hashes the password on every save
UserBeforeUpdateSiempre(stored, user) ==
    [user EXCEPT !.password = bcryptHash(user.password)]

\* hooks.beforeUpdate of User: rehash only when the password attribute changed
UserBeforeUpdate(stored, user) ==
    IF user.password # stored.password
    THEN [user EXCEPT !.password = bcryptHash(user.password)]
    ELSE user

matchPassword(user, enteredPassword) == user.password = bcryptHash(enteredPassword)

\* getResetPasswordToken: keeps the digest and the expiry, returns the raw token
getResetPasswordToken(user, resetToken, t) ==
    [user EXCEPT !.reset_password_token = sha256(resetToken),
                 !.reset_password_expire = t + ResetExpireMinutes]

\* User.create with the column defaults of the model
NewUser(email, password, role) ==
    UserBeforeCreate([nombre |-> "Vecino",
                      email |-> email, password |-> password, role |-> role,
                      is_active |-> TRUE,
                      reset_password_token |-> Null,
                      reset_password_expire |-> NoDate,
                      last_login |-> NoDate])

\* the rows whose email is the given one (findOne({ where: { email } }))
FindByEmail(table, email) == {id \in DOMAIN table : table[id].email = email}

\* express-validator chain of the register and reset-password routes
ValidPassword(password) == Len(password) >= 6

\* jwt.sign / jwt.verify: the set tokens holds the ids in signed tokens
getSignedJwtToken(id) == {id}

(***************************************************************************)
(* Initial data.                                                           *)
(***************************************************************************)
SuperadminId == 1
DeactivatedId == 2

\* createInitialData: the default superadmin
Superadmin == NewUser(SuperadminEmail, "admin123", "superadmin")

\* an account of the users table whose is_active column is FALSE
DeactivatedAccount ==
    [NewUser("baja@vecinity.com", "secreto1", "usuario") EXCEPT !.is_active = FALSE]

\* createInitialData: the default categories
DefaultCategories ==
    (1 :> [nombre |-> "Infraestructura",
           subcategorias |-> <<"Coladeras", "Calles", "Alumbrado">>]) @@
    (2 :> [nombre |-> "Basura",
           subcategorias |-> <<"Recolección", "Contenedores">>]) @@
    (3 :> [nombre |-> "Árboles",
           subcategorias |-> <<"Caídos", "Poda">>])

\* the response of the request handled last (NoRequest before the first one)
Response(op, actor, id, code, arg, aux, owner) ==
    [op |-> op, actor |-> actor, id |-> id, code |-> code,
     arg |-> arg, aux |-> aux, owner |-> owner]

NoRequest == Response("none", NoUser, 0, 0, Undefined, Undefined, NoUser)

Init ==
    /\ users = (SuperadminId :> Superadmin) @@ (DeactivatedId :> DeactivatedAccount)
    /\ categories = DefaultCategories
    /\ reports = << >>
    /\ seq = [users |-> 3, reports |-> 1, categories |-> 4]
    /\ tokens = {}
    /\ now = 0
    /\ last = NoRequest
    /\ pending = {}
    /\ files = {}

(***************************************************************************)
(* middleware/auth.js                                                      *)
(***************************************************************************)
\* protect: 0 when the request goes on, else the status it ends with.
\* actor is the id inside the bearer token, NoUser when there is no
\* (valid) token.
protect(table, actor) ==
    IF actor = NoUser THEN 401
    ELSE IF actor \notin DOMAIN table THEN 401
    ELSE IF ~table[actor].is_active THEN 401
    ELSE 0

\* req.user.roles || ['usuario']
userRoles(user) == IF "roles" \in DOMAIN user THEN user.roles ELSE {"usuario"}

\* authorize(...roles): 0 when the request goes on, else 403
authorize(user, roles) ==
    LET hasRequiredRole == \E role \in roles : role \in userRoles(user)
    IN  IF ~hasRequiredRole THEN 403 ELSE 0

(***************************************************************************)
(* routes/auth.js                                                          *)
(***************************************************************************)
Actors == {NoUser} \cup tokens

\* POST /api/auth/register
Register ==
    \E email \in Emails, password \in RegisterPasswords :
        LET id == seq.users
            code == IF ~ValidPassword(password) THEN 400
                    ELSE IF FindByEmail(users, email) # {} THEN 400
                    ELSE 201
        IN  /\ code = 201 => id <= MaxUsers
            /\ last' = Response("register", NoUser, IF code = 201 THEN id ELSE 0,
                                code, password, email, NoUser)
            /\ IF code = 201
               THEN /\ users' = users @@ (id :> NewUser(email, password, "usuario"))
                    /\ seq' = [seq EXCEPT !.users = id + 1]
                    /\ tokens' = tokens \cup getSignedJwtToken(id)
               ELSE UNCHANGED <<users, seq, tokens>>
            /\ UNCHANGED <<categories, pending, reports, now, files>>

\* POST /api/auth/register-admin
RegisterAdmin ==
    \E actor \in Actors, email \in Emails, password \in RegisterPasswords :
        LET id == seq.users
            code == IF protect(users, actor) # 0 THEN protect(users, actor)
                    ELSE IF users[actor].role # "superadmin" THEN 403
                    ELSE IF ~ValidPassword(password) THEN 400
                    ELSE IF FindByEmail(users, email) # {} THEN 400
                    ELSE 201
        IN  /\ code = 201 => id <= MaxUsers
            /\ last' = Response("register-admin", actor, IF code = 201 THEN id ELSE 0,
                                code, password, email, NoUser)
            /\ IF code = 201
               THEN /\ users' = users @@ (id :> NewUser(email, password, "admin_general"))
                    /\ seq' = [seq EXCEPT !.users = id + 1]
               ELSE UNCHANGED <<users, seq>>
            /\ UNCHANGED <<categories, pending, reports, tokens, now, files>>

\* a login that does not look at is_active
LoginCodeSinActivo(table, email, password) ==
    IF FindByEmail(table, email) = {} THEN 401
    ELSE LET user == table[CHOOSE id \in FindByEmail(table, email) : TRUE]
         IN  IF ~matchPassword(user, password) THEN 401 ELSE 200

\* POST /api/auth/login: the status the handler answers with
LoginCode(table, email, password) ==
    IF FindByEmail(table, email) = {} THEN 401
    ELSE LET user == table[CHOOSE id \in FindByEmail(table, email) : TRUE]
         IN  IF ~matchPassword(user, password) THEN 401
             ELSE IF ~user.is_active THEN 401
             ELSE 200

\* POST /api/auth/login: the message of an error answer
LoginMessage(table, email, password) ==
    IF FindByEmail(table, email) = {} THEN "Credenciales inválidas"
    ELSE LET user == table[CHOOSE id \in FindByEmail(table, email) : TRUE]
         IN  IF ~matchPassword(user, password) THEN "Credenciales inválidas"
             ELSE IF ~user.is_active THEN "Tu cuenta ha sido desactivada"
             ELSE Undefined

Login ==
    \E email \in Emails, password \in Passwords :
        LET code == LoginCode(users, email, password)
            found == FindByEmail(users, email)
            id == IF found = {} THEN 0 ELSE CHOOSE i \in found : TRUE
        IN  /\ last' = Response("login", NoUser, id, code, password, email, NoUser)
            /\ IF code = 200
               THEN /\ users' = [users EXCEPT ![id] =
                           UserBeforeUpdate(users[id], [users[id] EXCEPT !.last_login = now])]
                    /\ tokens' = tokens \cup getSignedJwtToken(id)
               ELSE UNCHANGED <<users, tokens>>
            /\ UNCHANGED <<categories, pending, reports, seq, now, files>>

\* POST /api/auth/forgot-password
ForgotPassword ==
    \E email \in Emails, resetToken \in ResetTokens :
        LET found == FindByEmail(users, email)
            id == IF found = {} THEN 0 ELSE CHOOSE i \in found : TRUE
        IN  IF found = {}
            THEN /\ last' = Response("forgot-password", NoUser, 0, 404, Undefined, email, NoUser)
                 /\ UNCHANGED <<users, categories, pending, reports, seq, tokens, now, files>>
            ELSE /\ users' = [users EXCEPT ![id] =
                        UserBeforeUpdate(users[id], getResetPasswordToken(users[id], resetToken, now))]
                 /\ last' = Response("forgot-password", NoUser, id, 200, resetToken, email, NoUser)
                 /\ UNCHANGED <<categories, pending, reports, seq, tokens, now, files>>

\* User.findOne({ where: { reset_password_token: resetToken,
\*                         reset_password_expire: { [Op.gt]: new Date() } } })
FindByResetToken(table, resetToken, t) ==
    {id \in DOMAIN table : /\ table[id].reset_password_token = resetToken
                           /\ table[id].reset_password_expire # NoDate
                           /\ table[id].reset_password_expire > t}

\* what a client can put in the :token path segment
PresentedTokens == ResetTokens \cup {sha256(t) : t \in ResetTokens}

\* PUT /api/auth/reset-password/:token
ResetPassword ==
    \E resetToken \in PresentedTokens, password \in Passwords \cup {ShortPassword} :
        LET found == FindByResetToken(users, resetToken, now)
        IN  IF ~ValidPassword(password) \/ found = {}
            THEN /\ last' = Response("reset-password", NoUser, 0, 400, resetToken, password, NoUser)
                 /\ UNCHANGED <<users, categories, pending, reports, seq, tokens, now, files>>
            ELSE \E id \in found :
                 /\ users' = [users EXCEPT ![id] =
                        UserBeforeUpdate(users[id],
                            [users[id] EXCEPT !.password = password,
                                              !.reset_password_token = Null,
                                              !.reset_password_expire = NoDate])]
                 /\ last' = Response("reset-password", NoUser, id, 200, resetToken, password, NoUser)
                 /\ UNCHANGED <<categories, pending, reports, seq, tokens, now, files>>

\* PUT /api/auth/profile
UpdateProfile ==
    \E actor \in Actors, nombre \in {Undefined, "Vecino", "A"} :
        LET code == IF protect(users, actor) # 0 THEN protect(users, actor)
                    ELSE IF nombre # Undefined /\ Len(nombre) < 2 THEN 400
                    ELSE 200
        IN  /\ last' = Response("profile", actor, IF code = 200 THEN actor ELSE 0,
                                code, nombre, Undefined, NoUser)
            /\ users' = IF code = 200
                         THEN [users EXCEPT ![actor] =
                                  UserBeforeUpdate(users[actor],
                                      [users[actor] EXCEPT !.nombre =
                                          IF nombre # Undefined THEN nombre ELSE @])]
                         ELSE users
            /\ UNCHANGED <<categories, pending, reports, seq, tokens, now, files>>

\* PUT /api/auth/password
ChangePassword ==
    \E actor \in Actors, currentPassword \in Passwords,
       newPassword \in Passwords \cup {ShortPassword} :
        LET code == IF protect(users, actor) # 0 THEN protect(users, actor)
                    ELSE IF ~ValidPassword(newPassword) THEN 400
                    ELSE IF ~matchPassword(users[actor], currentPassword) THEN 400
                    ELSE 200
        IN  /\ last' = Response("password", actor, IF code = 200 THEN actor ELSE 0,
                                code, newPassword, currentPassword, NoUser)
            /\ users' = IF code = 200
                         THEN [users EXCEPT ![actor] =
                                  UserBeforeUpdate(users[actor],
                                      [users[actor] EXCEPT !.password = newPassword])]
                         ELSE users
            /\ UNCHANGED <<categories, pending, reports, seq, tokens, now, files>>

\* the wall clock (new Date(), Date.now()), in minutes
Tick ==
    /\ now + ResetExpireMinutes <= MaxNow
    /\ now' = now + ResetExpireMinutes
    /\ UNCHANGED <<users, categories, pending, reports, seq, tokens, last, files>>

\* registration and login
NextAuth ==
    \/ Register
    \/ RegisterAdmin
    \/ Login
    \/ Tick

SpecAuth == Init /\ [][NextAuth]_vars

\* the password-reset flow on the accounts of the initial data
NextReset ==
    \/ ForgotPassword
    \/ ResetPassword
    \/ Login
    \/ Tick

SpecReset == Init /\ [][NextReset]_vars

\* every route that saves a user
NextPassword ==
    \/ Register
    \/ Login
    \/ UpdateProfile
    \/ ChangePassword
    \/ ForgotPassword
    \/ ResetPassword

SpecPassword == Init /\ [][NextPassword]_vars

(***************************************************************************)
(* middleware/errorHandler.js and the requests in flight                   *)
(*                                                                         *)
(* A handler that awaits twice on the users table (a lookup by email,      *)
(* then the INSERT or UPDATE) is two steps: the request waits in pending   *)
(* between them, so other requests run in between.  The table's unique     *)
(* index on email is checked by the INSERT / UPDATE itself.                *)
(***************************************************************************)
\* what the ORM rejects with when a write hits a unique index: the driver's
\* error (code ER_DUP_ENTRY) is kept under .original, not on the error
SequelizeUniqueConstraintError ==
    [name |-> "SequelizeUniqueConstraintError", code |-> Undefined, status |-> 0]

\* errorHandler: the status of the response to a thrown error
errorHandler(err) ==
    LET base == IF err.status # 0 THEN err.status ELSE 500
        byCode == CASE err.code = "ER_DUP_ENTRY" -> 409
                    [] err.code = "ER_NO_REFERENCED_ROW_2" -> 400
                    [] err.code = "ER_ROW_IS_REFERENCED_2" -> 409
                    [] err.code = "ER_BAD_FIELD_ERROR" -> 400
                    [] err.code \in {"PROTOCOL_CONNECTION_LOST", "ER_CON_COUNT_ERROR"} -> 503
                    [] err.code \in {"ER_NO_SUCH_TABLE", "ER_PARSE_ERROR",
                                     "ER_ACCESS_DENIED_ERROR"} -> 500
                    [] OTHER -> base
    IN  IF err.name \in {"JsonWebTokenError", "TokenExpiredError"} THEN 401
        ELSE IF err.name = "MulterError" THEN 400
        ELSE IF err.status \in {429, 403, 401, 404, 422, 500} THEN err.status
        ELSE byCode

\* the unique index on users.email: some other row holds the email
EmailTaken(table, email, self) ==
    \E id \in DOMAIN table \ {self} : table[id].email = email

\* User.create / user.save(): the status the request ends with
UserWriteCode(table, r, create, id) ==
    IF EmailTaken(table, r.email, IF create THEN NoUser ELSE id)
    THEN errorHandler(SequelizeUniqueConstraintError)
    ELSE IF create THEN 201 ELSE 200

Requests == 1 .. MaxPending

FreeRequests == Requests \ {r.req : r \in pending}

\* a request between its lookup and its write; instance is the row an
\* update loaded, Null for a registration
PendingRequest(op, actor, email, password, id, instance) ==
    [req |-> CHOOSE r \in FreeRequests : \A q \in FreeRequests : r <= q,
     op |-> op, actor |-> actor, email |-> email, password |-> password,
     id |-> id, instance |-> instance]

\* POST /api/auth/register up to the lookup by email
RegisterFindOne ==
    \E email \in Emails, password \in RegisterPasswords :
        LET code == IF ~ValidPassword(password) THEN 400
                    ELSE IF FindByEmail(users, email) # {} THEN 400
                    ELSE 0
        IN  /\ FreeRequests # {}
            /\ IF code = 0
               THEN /\ pending' = pending \cup
                          {PendingRequest("register", NoUser, email, password, NoUser, Null)}
                    /\ UNCHANGED last
               ELSE /\ last' = Response("register", NoUser, 0, code, password, email, NoUser)
                    /\ UNCHANGED pending
            /\ UNCHANGED <<users, categories, reports, seq, tokens, now, files>>

\* POST /api/auth/register-admin up to the lookup by email
RegisterAdminFindOne ==
    \E actor \in Actors, email \in Emails, password \in Passwords :
        LET code == IF protect(users, actor) # 0 THEN protect(users, actor)
                    ELSE IF users[actor].role # "superadmin" THEN 403
                    ELSE IF ~ValidPassword(password) THEN 400
                    ELSE IF FindByEmail(users, email) # {} THEN 400
                    ELSE 0
        IN  /\ FreeRequests # {}
            /\ IF code = 0
               THEN /\ pending' = pending \cup
                          {PendingRequest("register-admin", actor, email, password,
                                          NoUser, Null)}
                    /\ UNCHANGED last
               ELSE /\ last' = Response("register-admin", actor, 0, code, password,
                                        email, NoUser)
                    /\ UNCHANGED pending
            /\ UNCHANGED <<users, categories, reports, seq, tokens, now, files>>

\* PUT /api/users/:id with a new email, up to the lookup by email
UserUpdateFindOne ==
    \E actor \in Actors, id \in 1 .. MaxUsers, email \in Emails :
        LET code == IF protect(users, actor) # 0 THEN protect(users, actor)
                    ELSE IF authorize(users[actor], {"admin_general", "superadmin"}) # 0
                    THEN 403
                    ELSE IF id \notin DOMAIN users THEN 404
                    ELSE IF email # users[id].email /\ FindByEmail(users, email) # {}
                    THEN 400
                    ELSE 0
        IN  /\ FreeRequests # {}
            /\ IF code = 0
               THEN /\ pending' = pending \cup
                          {PendingRequest("user-update", actor, email, Undefined,
                                          id, users[id])}
                    /\ UNCHANGED last
               ELSE /\ last' = Response("user-update", actor, 0, code, id, email, NoUser)
                    /\ UNCHANGED pending
            /\ UNCHANGED <<users, categories, reports, seq, tokens, now, files>>

\* the rest of the three handlers: User.create / user.save() and the answer
UserWrite ==
    \E r \in pending :
        LET create == r.op # "user-update"
            id == IF create THEN seq.users ELSE r.id
            code == UserWriteCode(users, r, create, id)
            role == IF r.op = "register" THEN "usuario" ELSE "admin_general"
        IN  /\ code = 201 => id <= MaxUsers
            /\ pending' = pending \ {r}
            /\ last' = Response(r.op, r.actor, IF code \in {200, 201} THEN id ELSE 0,
                                code, r.password, r.email, r.req)
            /\ IF code = 201
               THEN /\ users' = users @@ (id :> NewUser(r.email, r.password, role))
                    /\ seq' = [seq EXCEPT !.users = id + 1]
                    /\ tokens' = IF r.op = "register"
                                 THEN tokens \cup getSignedJwtToken(id)
                                 ELSE tokens
               ELSE /\ users' = IF code = 200
                                THEN [users EXCEPT ![id] =
                                        UserBeforeUpdate(users[id],
                                            [r.instance EXCEPT !.email = r.email])]
                                ELSE users
                    /\ UNCHANGED <<seq, tokens>>
            /\ UNCHANGED <<categories, reports, now, files>>

\* concurrent registrations and user updates
NextRegistro ==
    \/ RegisterFindOne
    \/ RegisterAdminFindOne
    \/ UserUpdateFindOne
    \/ UserWrite
    \/ Login

SpecRegistro == Init /\ [][NextRegistro]_vars

(***************************************************************************)
(* Report model (models/Report.js).                                        *)
(***************************************************************************)
\* the object literal the comment routes pass where the method expects a
\* user id: a truthy value that is no id
ObjectArg == -1

ShortTitulo == "abc"

\* validate.isValidHistorial
isValidHistorial(value) ==
    \A i \in 1..Len(value) :
        /\ value[i].estatus \in Estatus
        /\ value[i].cambiado_por # NoUser

\* validate.isValidComentarios
isValidComentarios(value) ==
    \A i \in 1..Len(value) :
        /\ value[i].usuario_id # NoUser
        /\ value[i].contenido \notin {Undefined, ""}
        /\ Len(value[i].contenido) >= 1
        /\ Len(value[i].contenido) <= 500

\* the validators save() runs on a Report instance
ReportValid(report) ==
    /\ Len(report.titulo) >= 5
    /\ Len(report.titulo) <= 100
    /\ report.estatus \in Estatus
    /\ isValidHistorial(report.historial_estatus)
    /\ isValidComentarios(report.comentarios)

\* a beforeCreate hook that seeds no history
ReportBeforeCreateSinHistorial(report) == report

\* hooks.beforeCreate of Report: the first entry of the history
ReportBeforeCreate(report) ==
    [report EXCEPT !.historial_estatus =
        <<[estatus |-> report.estatus,
           comentario |-> "Reporte creado",
           cambiado_por |-> report.usuario_id]>>]

\* Report.create with the column defaults of the model
NewReport(titulo, categoria_id, is_publico, usuario_id) ==
    ReportBeforeCreate([titulo |-> titulo,
                        categoria_id |-> categoria_id,
                        estatus |-> "nuevo",
                        usuario_id |-> usuario_id,
                        historial_estatus |-> << >>,
                        comentarios |-> << >>,
                        votos |-> [positivos |-> << >>, negativos |-> << >>],
                        is_publico |-> is_publico,
                        asignado_a |-> NoUser,
                        visitas |-> 0,
                        ultima_visita |-> now,
                        latitud |-> 0,
                        longitud |-> 0])

\* a cambiarEstatus without the test of the current status
cambiarEstatusSinGuarda(report, nuevoEstatus, comentario, usuarioId) ==
    [saved |-> TRUE,
     report |-> [report EXCEPT
         !.estatus = nuevoEstatus,
         !.historial_estatus = Append(@,
             [estatus |-> nuevoEstatus,
              comentario |-> IF comentario = Undefined
                             THEN "Estatus cambiado a " \o nuevoEstatus
                             ELSE comentario,
              cambiado_por |-> usuarioId])]]

\* Report.prototype.cambiarEstatus: the instance after the call and whether
\* the call went through save()
cambiarEstatus(report, nuevoEstatus, comentario, usuarioId) ==
    IF report.estatus # nuevoEstatus
    THEN [saved |-> TRUE,
          report |-> [report EXCEPT
              !.estatus = nuevoEstatus,
              !.historial_estatus = Append(@,
                  [estatus |-> nuevoEstatus,
                   comentario |-> IF comentario = Undefined
                                  THEN "Estatus cambiado a " \o nuevoEstatus
                                  ELSE comentario,
                   cambiado_por |-> usuarioId])]]
    ELSE [saved |-> FALSE, report |-> report]

\* Report.prototype.agregarComentario: the instance handed to save()
agregarComentario(report, usuarioId, contenido) ==
    [report EXCEPT !.comentarios =
        Append(@, [usuario_id |-> usuarioId, contenido |-> contenido])]

\* Array.prototype.filter(v => v.usuario_id !== usuarioId)
WithoutUser(votes, usuarioId) ==
    SelectSeq(votes, LAMBDA v : v.usuario_id # usuarioId)

\* Array.prototype.find(v => v.usuario_id === usuarioId) finds an entry
HasUser(votes, usuarioId) ==
    \E i \in 1..Len(votes) : votes[i].usuario_id = usuarioId

\* a votar that keeps the vote the user already has
votarSinRetirar(report, usuarioId, tipo, fecha) ==
    LET voto == [usuario_id |-> usuarioId, fecha |-> fecha]
    IN  [report EXCEPT !.votos =
            IF tipo = "positivo"
            THEN [@ EXCEPT !.positivos = Append(@, voto)]
            ELSE IF tipo = "negativo"
            THEN [@ EXCEPT !.negativos = Append(@, voto)]
            ELSE @]

\* Report.prototype.votar: the instance handed to save()
votar(report, usuarioId, tipo, fecha) ==
    LET votosUsuario == \/ HasUser(report.votos.positivos, usuarioId)
                        \/ HasUser(report.votos.negativos, usuarioId)
        removed == IF votosUsuario
                   THEN [positivos |-> WithoutUser(report.votos.positivos, usuarioId),
                         negativos |-> WithoutUser(report.votos.negativos, usuarioId)]
                   ELSE report.votos
        voto == [usuario_id |-> usuarioId, fecha |-> fecha]
    IN  [report EXCEPT !.votos =
            IF tipo = "positivo"
            THEN [removed EXCEPT !.positivos = Append(@, voto)]
            ELSE IF tipo = "negativo"
            THEN [removed EXCEPT !.negativos = Append(@, voto)]
            ELSE removed]

\* instance.save() on a loaded report: rejected by a validator or written
SaveCode(instance) == IF ReportValid(instance) THEN 200 ELSE 500

\* a save() that writes the instance without its history
SaveReportSinHistorial(table, id, instance) ==
    IF ReportValid(instance)
    THEN [table EXCEPT ![id] = [instance EXCEPT !.historial_estatus = << >>]]
    ELSE table

SaveReport(table, id, instance) ==
    IF ReportValid(instance) THEN [table EXCEPT ![id] = instance] ELSE table

\* instance.destroy()
DestroyReport(table, id) == [i \in DOMAIN table \ {id} |-> table[i]]

\* which vote array holds the user
VotoDe(report, usuarioId) ==
    IF HasUser(report.votos.positivos, usuarioId) THEN "positivo"
    ELSE IF HasUser(report.votos.negativos, usuarioId) THEN "negativo"
    ELSE "ninguno"

(***************************************************************************)
(* A running system: the superadmin has logged in, ana has registered and  *)
(* the superadmin has registered beto as administrator, who has logged in. *)
(***************************************************************************)
AnaId == 3
BetoId == 4

SessionUsers ==
    (SuperadminId :> [Superadmin EXCEPT !.last_login = 0]) @@
    (DeactivatedId :> DeactivatedAccount) @@
    (AnaId :> NewUser("ana@vecinity.com", "secreto1", "usuario")) @@
    (BetoId :> [NewUser("beto@vecinity.com", "secreto1", "admin_general")
                   EXCEPT !.last_login = 0])

InitSession ==
    /\ users = SessionUsers
    /\ categories = DefaultCategories
    /\ reports = << >>
    /\ seq = [users |-> 5, reports |-> 1, categories |-> 4]
    /\ tokens = {SuperadminId, AnaId, BetoId}
    /\ now = 0
    /\ last = NoRequest
    /\ pending = {}
    /\ files = {}

ReportIds == 1..MaxReports

OwnerOf(id) == IF id \in DOMAIN reports THEN reports[id].usuario_id ELSE NoUser

(***************************************************************************)
(* routes/reports.js                                                       *)
(***************************************************************************)
\* body('titulo').trim().isLength({ min: 5, max: 100 })
ValidTitulo(titulo) == Len(titulo) >= 5 /\ Len(titulo) <= 100

\* body('comentario').trim().isLength({ min: 5, max: 500 })
ValidComentario(comentario) == Len(comentario) >= 5 /\ Len(comentario) <= 500

\* const isAdmin = req.user.role === 'admin' || req.user.role === 'superadmin'
isAdmin(user) == user.role = "admin" \/ user.role = "superadmin"

\* the role list of the permission check of PUT /:id/status
StatusRoles == {"admin_operativo", "admin_general", "superadmin"}

\* the handler of POST /api/reports on one request; max bounds the table
PostReport(actor, titulo, categoria_id, is_publico, max) ==
    LET id == seq.reports
        code == IF protect(users, actor) # 0 THEN protect(users, actor)
                ELSE IF ~ValidTitulo(titulo) THEN 400
                ELSE IF categoria_id \notin DOMAIN categories THEN 400
                ELSE 201
    IN  /\ code = 201 => id <= max
        /\ last' = Response("create", actor, IF code = 201 THEN id ELSE 0,
                            code, titulo, is_publico, NoUser)
        /\ IF code = 201
           THEN /\ reports' = reports @@
                    (id :> NewReport(titulo, categoria_id, is_publico # "false", actor))
                /\ seq' = [seq EXCEPT !.reports = id + 1]
           ELSE UNCHANGED <<reports, seq>>
        /\ UNCHANGED <<users, categories, pending, tokens, now>>

\* POST /api/reports
CreateReport ==
    \E actor \in Actors, titulo \in {"Bache en la calle", ShortTitulo},
       categoria_id \in {1, 9}, is_publico \in {Undefined} :
        /\ PostReport(actor, titulo, categoria_id, is_publico, MaxReports)
        /\ UNCHANGED files

\* updateFields.forEach(field => { if (req.body[field] !== undefined) ... })
UpdateFields(report, titulo, categoria_id, estatus, is_publico) ==
    [report EXCEPT
        !.titulo = IF titulo # Undefined THEN titulo ELSE @,
        !.categoria_id = IF categoria_id # 0 THEN categoria_id ELSE @,
        !.estatus = IF estatus # Undefined THEN estatus ELSE @,
        !.is_publico = IF is_publico # Undefined THEN is_publico = "true" ELSE @]

\* a request body of PUT /:id; a field the body leaves out is undefined
PutBody(titulo, categoria_id, estatus, is_publico) ==
    [titulo |-> titulo, categoria_id |-> categoria_id,
     estatus |-> estatus, is_publico |-> is_publico]

PutBodies ==
    {PutBody(Undefined, 0, "en_proceso", Undefined),
     PutBody(Undefined, 0, "abierto", Undefined),
     PutBody("Fuga de agua", 2, Undefined, Undefined),
     PutBody(ShortTitulo, 0, Undefined, Undefined),
     PutBody(Undefined, 9, Undefined, Undefined),
     PutBody(Undefined, 0, Undefined, "false")}

\* PUT /api/reports/:id
PutReport ==
    \E actor \in Actors, id \in ReportIds, body \in PutBodies :
        LET titulo == body.titulo
            categoria_id == body.categoria_id
            estatus == body.estatus
            is_publico == body.is_publico
            instance == UpdateFields(reports[id], titulo, categoria_id, estatus, is_publico)
            code == IF protect(users, actor) # 0 THEN protect(users, actor)
                    ELSE IF titulo # Undefined /\ ~ValidTitulo(titulo) THEN 400
                    ELSE IF estatus # Undefined /\ estatus \notin Estatus THEN 400
                    ELSE IF id \notin DOMAIN reports THEN 404
                    ELSE IF reports[id].usuario_id # actor /\ ~isAdmin(users[actor]) THEN 403
                    ELSE IF categoria_id # 0 /\ categoria_id \notin DOMAIN categories THEN 400
                    ELSE SaveCode(instance)
        IN  /\ last' = Response("put", actor, id, code, estatus,
                                IF id \in DOMAIN reports THEN reports[id].estatus ELSE Undefined,
                                OwnerOf(id))
            /\ reports' = IF code = 200 THEN SaveReport(reports, id, instance) ELSE reports
            /\ UNCHANGED <<users, categories, pending, seq, tokens, now, files>>

\* the request bodies of PUT /:id/status
StatusBodies ==
    {[estatus |-> "nuevo", comentario |-> Undefined],
     [estatus |-> "en_proceso", comentario |-> Undefined],
     [estatus |-> "en_proceso", comentario |-> "Cuadrilla enviada"],
     [estatus |-> "abierto", comentario |-> Undefined],
     [estatus |-> "resuelto", comentario |-> "ok"]}

\* PUT /api/reports/:id/status
PutStatus ==
    \E actor \in Actors, id \in ReportIds, body \in StatusBodies :
        LET estatus == body.estatus
            comentario == body.comentario
            result == cambiarEstatus(reports[id], estatus, comentario, NoUser)
            code == IF protect(users, actor) # 0 THEN protect(users, actor)
                    ELSE IF estatus \notin Estatus THEN 400
                    ELSE IF comentario # Undefined /\ ~ValidComentario(comentario) THEN 400
                    ELSE IF id \notin DOMAIN reports THEN 404
                    ELSE IF /\ reports[id].usuario_id # actor
                            /\ users[actor].role \notin StatusRoles THEN 403
                    ELSE IF result.saved THEN SaveCode(result.report)
                    ELSE 200
        IN  /\ last' = Response("status", actor, id, code, estatus,
                                IF id \in DOMAIN reports THEN reports[id].estatus ELSE Undefined,
                                OwnerOf(id))
            /\ reports' = IF code = 200 /\ result.saved
                          THEN SaveReport(reports, id, result.report)
                          ELSE reports
            /\ UNCHANGED <<users, categories, pending, seq, tokens, now, files>>

\* POST /api/reports/:id/comments
PostComment ==
    \E actor \in Actors, id \in ReportIds, comentario \in {"Ya lo repararon", "ok"} :
        LET instance == agregarComentario(reports[id], ObjectArg, Undefined)
            code == IF protect(users, actor) # 0 THEN protect(users, actor)
                    ELSE IF ~ValidComentario(comentario) THEN 400
                    ELSE IF id \notin DOMAIN reports THEN 404
                    ELSE IF reports[id].usuario_id # actor /\ ~isAdmin(users[actor]) THEN 403
                    ELSE SaveCode(instance)
        IN  /\ last' = Response("comment", actor, id, code, comentario, Undefined, OwnerOf(id))
            /\ reports' = IF code = 200 THEN SaveReport(reports, id, instance) ELSE reports
            /\ UNCHANGED <<users, categories, pending, seq, tokens, now, files>>

\* POST /api/reports/:id/vote
PostVote ==
    \E actor \in Actors, id \in ReportIds, tipo \in {"like", "dislike", "positivo"} :
        LET instance == votar(reports[id], actor, tipo, now)
            code == IF protect(users, actor) # 0 THEN protect(users, actor)
                    ELSE IF tipo \notin {"like", "dislike"} THEN 400
                    ELSE IF id \notin DOMAIN reports THEN 404
                    ELSE IF reports[id].usuario_id # actor /\ ~isAdmin(users[actor]) THEN 403
                    ELSE SaveCode(instance)
        IN  /\ last' = Response("vote", actor, id, code, tipo,
                                IF id \in DOMAIN reports /\ actor # NoUser
                                THEN VotoDe(reports[id], actor) ELSE Undefined,
                                OwnerOf(id))
            /\ reports' = IF code = 200 THEN SaveReport(reports, id, instance) ELSE reports
            /\ UNCHANGED <<users, categories, pending, seq, tokens, now, files>>

\* a DELETE /:id that destroys the row before it looks at the owner
DeleteReportSinPermiso ==
    \E actor \in Actors, id \in ReportIds :
        LET code == IF protect(users, actor) # 0 THEN protect(users, actor)
                    ELSE IF id \notin DOMAIN reports THEN 404
                    ELSE IF reports[id].usuario_id # actor /\ ~isAdmin(users[actor]) THEN 403
                    ELSE 200
        IN  /\ last' = Response("delete", actor, id, code, Undefined, Undefined, OwnerOf(id))
            /\ reports' = IF code \in {200, 403} THEN DestroyReport(reports, id) ELSE reports
            /\ UNCHANGED <<users, categories, pending, seq, tokens, now, files>>

\* DELETE /api/reports/:id
DeleteReport ==
    \E actor \in Actors, id \in ReportIds :
        LET code == IF protect(users, actor) # 0 THEN protect(users, actor)
                    ELSE IF id \notin DOMAIN reports THEN 404
                    ELSE IF reports[id].usuario_id # actor /\ ~isAdmin(users[actor]) THEN 403
                    ELSE 200
        IN  /\ last' = Response("delete", actor, id, code, Undefined, Undefined, OwnerOf(id))
            /\ reports' = IF code = 200 THEN DestroyReport(reports, id) ELSE reports
            /\ UNCHANGED <<users, categories, pending, seq, tokens, now, files>>

(***************************************************************************)
(* routes/reports.js: the reads GET /api/reports and GET /api/reports/:id  *)
(***************************************************************************)
\* optionalAuth: req.user, NoUser when the token names no active user
optionalAuth(table, actor) ==
    IF actor # NoUser /\ actor \in DOMAIN table /\ table[actor].is_active
    THEN actor
    ELSE NoUser

\* the callers of the reads: no token, or a token signed for an account
ReadActors == Actors \cup {DeactivatedId}

NaN == -1

\* parseInt on the query strings of the model
parseInt(value) ==
    CASE value = "0" -> 0
      [] value = "1" -> 1
      [] value = "2" -> 2
      [] value = "3" -> 3
      [] value = "4" -> 4
      [] value = "100" -> 100
      [] value = "101" -> 101
      [] OTHER -> NaN

\* query(...).optional().isInt({ min, max })
isInt(value, min, max) ==
    \/ value = Undefined
    \/ parseInt(value) # NaN /\ parseInt(value) >= min /\ parseInt(value) <= max

\* query(...).optional().isInt({ min })
isIntMin(value, min) ==
    \/ value = Undefined
    \/ parseInt(value) # NaN /\ parseInt(value) >= min

\* req.query.page and req.query.limit
PageQueries == {Undefined, "0", "2", "3", "4"}
LimitQueries == {Undefined, "0", "2", "101"}

\* Math.ceil(count / limit)
MathCeil(count, limit) ==
    IF count % limit = 0 THEN count \div limit ELSE count \div limit + 1

\* an offset that counts pages from 0
OffsetDesdeCero(page, limit) == page * limit

\* const offset = (parseInt(page) - 1) * parseInt(limit)
Offset(page, limit) == (page - 1) * limit

\* where: { is_publico: true }, order: [['created_at', 'DESC']]: the ids of
\* the matching rows, newest first (ids grow with the time of creation)
RECURSIVE Descending(_)
Descending(ids) ==
    IF ids = {} THEN << >>
    ELSE LET top == CHOOSE i \in ids : \A j \in ids : j <= i
         IN  <<top>> \o Descending(ids \ {top})

WherePublico(table) == {id \in DOMAIN table : table[id].is_publico}

\* Report.findAndCountAll({ where, order, limit, offset })
findAndCountAll(table, limit, offset) ==
    LET all == Descending(WherePublico(table))
        to == IF offset + limit < Len(all) THEN offset + limit ELSE Len(all)
    IN  [count |-> Len(all), rows |-> SubSeq(all, offset + 1, to)]

\* GET /api/reports
GetReports ==
    \E actor \in ReadActors, page \in PageQueries, limit \in LimitQueries :
        LET code == IF ~isIntMin(page, 1) THEN 400
                    ELSE IF ~isInt(limit, 1, 100) THEN 400
                    ELSE 200
            p == IF page = Undefined THEN 1 ELSE parseInt(page)
            l == IF limit = Undefined THEN 20 ELSE parseInt(limit)
            found == findAndCountAll(reports, l, Offset(p, l))
        IN  \* owner holds req.query, aux the pagination of the response
            /\ last' = Response("list", optionalAuth(users, actor), 0, code,
                                IF code = 200 THEN found.rows ELSE << >>,
                                IF code = 200
                                THEN [page |-> p, limit |-> l, total |-> found.count,
                                      pages |-> MathCeil(found.count, l)]
                                ELSE Undefined,
                                [page |-> page, limit |-> limit])
            /\ UNCHANGED <<users, categories, reports, seq, tokens, now, pending, files>>

\* an incrementarVisitas that counts twice
incrementarVisitasDoble(report) ==
    [report EXCEPT !.visitas = @ + 2, !.ultima_visita = now]

\* Report.prototype.incrementarVisitas, before its save()
incrementarVisitas(report) ==
    [report EXCEPT !.visitas = @ + 1, !.ultima_visita = now]

\* a read that does not look at the owner
GetReportCodeSinDueno(table, user, id) ==
    IF id \notin DOMAIN table THEN 404 ELSE 200

\* the status GET /api/reports/:id ends with; user is req.user
GetReportCode(table, user, id) ==
    IF id \notin DOMAIN table THEN 404
    ELSE IF ~table[id].is_publico /\ (user = NoUser \/ user # table[id].usuario_id)
    THEN 403
    ELSE SaveCode(incrementarVisitas(table[id]))

\* GET /api/reports/:id
GetReport ==
    \E actor \in ReadActors, id \in 1 .. MaxReports + 1 :
        LET user == optionalAuth(users, actor)
            code == GetReportCode(reports, user, id)
        IN  /\ code = 200 => reports[id].visitas < MaxVisitas
            /\ last' = Response("read", user, id, code,
                                IF code = 200 THEN incrementarVisitas(reports[id])
                                ELSE Undefined,
                                actor, OwnerOf(id))
            /\ reports' = IF code = 200
                          THEN SaveReport(reports, id, incrementarVisitas(reports[id]))
                          ELSE reports
            /\ UNCHANGED <<users, categories, seq, tokens, now, pending, files>>

\* POST /api/reports, public or not, by the callers of the reading specs
CreateReportPrivacidad ==
    \E actor \in {NoUser, AnaId, BetoId}, is_publico \in {Undefined, "false"} :
        /\ PostReport(actor, "Bache en la calle", 1, is_publico, MaxReports)
        /\ UNCHANGED files

\* POST /api/reports, up to the number of rows the listing pages over
CreateReportListado ==
    \E actor \in {NoUser, AnaId}, is_publico \in {Undefined, "false"} :
        /\ PostReport(actor, "Bache en la calle", 1, is_publico, MaxListado)
        /\ UNCHANGED files

\* the listing over several pages
NextListado ==
    \/ CreateReportListado
    \/ GetReports

SpecListado == InitSession /\ [][NextListado]_vars

\* the reads of public and non-public reports
NextLectura ==
    \/ CreateReportPrivacidad
    \/ GetReports
    \/ GetReport

SpecLectura == InitSession /\ [][NextLectura]_vars

\* the visits of a report over time
NextVisitas ==
    \/ CreateReportPrivacidad
    \/ GetReport
    \/ Tick

SpecVisitas == InitSession /\ [][NextVisitas]_vars

(***************************************************************************)
(* routes/reports.js: requests on one report in flight                     *)
(*                                                                         *)
(* PUT /:id/status, POST /:id/comments and POST /:id/vote await findByPk   *)
(* and then the save() of the model method: the request waits in pending   *)
(* between the two with the instance it loaded, and other requests run in  *)
(* between.                                                                *)
(***************************************************************************)
\* req.body of the three routes
ReportBodies(op) ==
    CASE op = "status" -> {[estatus |-> "en_proceso", comentario |-> Undefined],
                           [estatus |-> "nuevo", comentario |-> Undefined],
                           [estatus |-> "abierto", comentario |-> Undefined]}
      [] op = "comment" -> {[comentario |-> "Ya lo repararon"], [comentario |-> "ok"]}
      [] op = "vote" -> {[tipo |-> "like"], [tipo |-> "positivo"]}

\* a report request between its findByPk and its save()
PendingReport(op, actor, id, body, instance) ==
    [req |-> CHOOSE r \in FreeRequests : \A q \in FreeRequests : r <= q,
     op |-> op, actor |-> actor, id |-> id, body |-> body, instance |-> instance]

\* the three handlers up to the permission check: 0 when the request goes on
ReportFindCode(op, actor, id, body) ==
    IF protect(users, actor) # 0 THEN protect(users, actor)
    ELSE IF op = "status" /\ body.estatus \notin Estatus THEN 400
    ELSE IF op = "comment" /\ ~ValidComentario(body.comentario) THEN 400
    ELSE IF op = "vote" /\ body.tipo \notin {"like", "dislike"} THEN 400
    ELSE IF id \notin DOMAIN reports THEN 404
    ELSE IF /\ reports[id].usuario_id # actor
            /\ IF op = "status" THEN users[actor].role \notin StatusRoles
               ELSE ~isAdmin(users[actor])
    THEN 403
    ELSE 0

\* the model method each handler calls on the instance it loaded: the
\* instance after the call and whether the method calls save()
ReportMethod(r) ==
    CASE r.op = "status" ->
            cambiarEstatus(r.instance, r.body.estatus, r.body.comentario, NoUser)
      [] r.op = "comment" ->
            [saved |-> TRUE, report |-> agregarComentario(r.instance, ObjectArg, Undefined)]
      [] r.op = "vote" ->
            [saved |-> TRUE, report |-> votar(r.instance, r.actor, r.body.tipo, now)]

\* the handlers up to await Report.findByPk(req.params.id)
ReportFindByPk ==
    \E op \in {"status", "comment", "vote"}, actor \in {NoUser, AnaId},
       id \in ReportIds :
        \E body \in ReportBodies(op) :
            LET code == ReportFindCode(op, actor, id, body)
            IN  /\ FreeRequests # {}
                /\ IF code = 0
                   THEN /\ pending' = pending \cup
                              {PendingReport(op, actor, id, body, reports[id])}
                        /\ UNCHANGED last
                   ELSE /\ last' = Response(op, actor, id, code, Undefined, body, 0)
                        /\ UNCHANGED pending
                /\ UNCHANGED <<users, categories, reports, seq, tokens, now, files>>

\* the rest of the handlers: the model method, its save() and the answer;
\* arg holds the instance the request loaded, owner the request
ReportSave ==
    \E r \in pending :
        LET result == ReportMethod(r)
            code == IF result.saved THEN SaveCode(result.report) ELSE 200
        IN  /\ r.op \in {"status", "comment", "vote"}
            /\ pending' = pending \ {r}
            /\ last' = Response(r.op, r.actor, r.id, code, r.instance, r.body, r.req)
            /\ reports' = IF result.saved /\ r.id \in DOMAIN reports
                          THEN SaveReport(reports, r.id, result.report)
                          ELSE reports
            /\ UNCHANGED <<users, categories, seq, tokens, now, files>>

\* POST /api/reports by Ana, or by nobody
CreateReportDeAna ==
    \E actor \in {NoUser, AnaId} :
        /\ PostReport(actor, "Bache en la calle", 1, Undefined, MaxReports)
        /\ UNCHANGED files

\* status changes, comments and votes on one report at the same time
NextConcurrente ==
    \/ CreateReportDeAna
    \/ ReportFindByPk
    \/ ReportSave

SpecConcurrente == InitSession /\ [][NextConcurrente]_vars

\* GET /api/reports/:id up to await Report.findByPk: the request goes on to
\* incrementarVisitas with the instance it loaded
ReadFindByPk ==
    \E actor \in {NoUser, AnaId}, id \in 1 .. MaxReports + 1 :
        LET user == optionalAuth(users, actor)
            code == IF id \notin DOMAIN reports THEN 404
                    ELSE IF /\ ~reports[id].is_publico
                            /\ (user = NoUser \/ user # reports[id].usuario_id)
                    THEN 403
                    ELSE 0
        IN  /\ FreeRequests # {}
            /\ IF code = 0
               THEN /\ pending' = pending \cup
                          {PendingReport("read", user, id, Undefined, reports[id])}
                    /\ UNCHANGED last
               ELSE /\ last' = Response("read", user, id, code, Undefined, actor, 0)
                    /\ UNCHANGED pending
            /\ UNCHANGED <<users, categories, reports, seq, tokens, now, files>>

\* the rest of GET /api/reports/:id: incrementarVisitas, its save() and the
\* answer; aux holds the instance the request loaded, owner the request
ReadSave ==
    \E r \in pending :
        LET instance == incrementarVisitas(r.instance)
            code == SaveCode(instance)
        IN  /\ r.op = "read"
            /\ r.instance.visitas < MaxVisitas
            /\ pending' = pending \ {r}
            /\ last' = Response("read", r.actor, r.id, code, instance, r.instance, r.req)
            /\ reports' = IF r.id \in DOMAIN reports
                          THEN SaveReport(reports, r.id, instance)
                          ELSE reports
            /\ UNCHANGED <<users, categories, seq, tokens, now, files>>

\* reads of one report at the same time
NextLecturas ==
    \/ CreateReportDeAna
    \/ ReadFindByPk
    \/ ReadSave

SpecLecturas == InitSession /\ [][NextLecturas]_vars

(***************************************************************************)
(* routes/admin.js                                                         *)
(***************************************************************************)
\* the request bodies of PUT /reports/:id/moderate
ModerateBodies ==
    {[accion |-> "aprobar", razon |-> Undefined, cambios |-> << >>],
     [accion |-> "rechazar", razon |-> "Contenido duplicado", cambios |-> << >>],
     [accion |-> "editar", razon |-> Undefined, cambios |-> [estatus |-> "cerrado"]],
     [accion |-> "editar", razon |-> Undefined, cambios |-> [historial_estatus |-> << >>]],
     [accion |-> "eliminar", razon |-> Undefined, cambios |-> << >>]}

\* Object.keys(cambios).forEach(key => { if (report[key] !== undefined) ... })
ApplyCambios(report, cambios) ==
    [key \in DOMAIN report |-> IF key \in DOMAIN cambios THEN cambios[key] ELSE report[key]]

\* the switch on accion of PUT /reports/:id/moderate
ModerateSwitch(report, accion, cambios) ==
    IF accion = "aprobar" THEN [report EXCEPT !.is_publico = TRUE]
    ELSE IF accion = "rechazar" THEN [report EXCEPT !.is_publico = FALSE]
    ELSE IF accion = "editar" THEN ApplyCambios(report, cambios)
    ELSE report

\* PUT /api/admin/reports/:id/moderate
Moderate ==
    \E actor \in Actors, id \in ReportIds, body \in ModerateBodies :
        LET accion == body.accion
            razon == body.razon
            cambios == body.cambios
            switched == ModerateSwitch(reports[id], accion, cambios)
            instance == IF razon # Undefined
                        THEN agregarComentario(switched, ObjectArg, Undefined)
                        ELSE switched
            code == IF protect(users, actor) # 0 THEN protect(users, actor)
                    ELSE IF authorize(users[actor], StatusRoles) # 0
                         THEN authorize(users[actor], StatusRoles)
                    ELSE IF razon # Undefined /\ ~ValidComentario(razon) THEN 400
                    ELSE IF id \notin DOMAIN reports THEN 404
                    ELSE IF accion = "eliminar" THEN 200
                    ELSE SaveCode(instance)
        IN  /\ last' = Response("moderate", actor, id, code, accion, razon, OwnerOf(id))
            /\ reports' = IF code # 200 THEN reports
                          ELSE IF accion = "eliminar" THEN DestroyReport(reports, id)
                          ELSE SaveReport(reports, id, instance)
            /\ UNCHANGED <<users, categories, pending, seq, tokens, now, files>>

\* the HTTP interface of the reports
Next ==
    \/ CreateReport
    \/ PutReport
    \/ PutStatus
    \/ PostComment
    \/ PostVote
    \/ DeleteReport
    \/ Moderate

Spec == InitSession /\ [][Next]_vars

\* User.prototype.isAdmin
UserIsAdmin(user) == user.role \in {"admin_operativo", "admin_general", "superadmin"}

\* what reading .includes of an undefined property throws
TypeError == [name |-> "TypeError", code |-> Undefined, status |-> 0]

\* !assignedUser.roles.includes('admin'): 0 when the request goes on
AssignedUserCode(assignedUser) ==
    IF "roles" \notin DOMAIN assignedUser THEN errorHandler(TypeError)
    ELSE IF "admin" \notin assignedUser.roles THEN 400
    ELSE 0

\* req.body.asignado_a
AsignadoBodies == {0, SuperadminId, AnaId, BetoId, 9}

\* PUT /api/admin/reports/:id/assign
Assign ==
    \E actor \in Actors, id \in ReportIds, asignado_a \in AsignadoBodies :
        LET instance == [reports[id] EXCEPT !.asignado_a = asignado_a]
            code == IF protect(users, actor) # 0 THEN protect(users, actor)
                    ELSE IF authorize(users[actor], StatusRoles) # 0
                         THEN authorize(users[actor], StatusRoles)
                    ELSE IF asignado_a < 1 THEN 400
                    ELSE IF id \notin DOMAIN reports THEN 404
                    ELSE IF asignado_a \notin DOMAIN users THEN 404
                    ELSE IF AssignedUserCode(users[asignado_a]) # 0
                         THEN AssignedUserCode(users[asignado_a])
                    ELSE SaveCode(instance)
        IN  /\ last' = Response("assign", actor, id, code, asignado_a, Undefined, OwnerOf(id))
            /\ reports' = IF code = 200 THEN SaveReport(reports, id, instance) ELSE reports
            /\ UNCHANGED <<users, categories, pending, seq, tokens, now, files>>

\* the assignment of reports
NextAsignar ==
    \/ CreateReport
    \/ Assign

SpecAsignar == InitSession /\ [][NextAsignar]_vars

(***************************************************************************)
(* routes/reports.js: the search by location of GET /api/reports           *)
(*                                                                         *)
(* Coordinates are counted in thousandths of a degree and the radio of the *)
(* query in tenths of a kilometre, so that radio * 0.01 degrees is radio   *)
(* thousandths; distances are in metres.                                   *)
(***************************************************************************)
Abs(x) == IF x < 0 THEN 0 - x ELSE x

\* metres of great circle in a thousandth of a degree, times 1000:
\* 6371 km * pi / 180
MetrosPorGrado == 111195

\* 6371 * acos(cos(lat) cos(latitud) cos(longitud - lng) + sin(lat) sin(latitud))
\* for the points drawn here, which share a meridian with the centre or lie
\* with it on the equator: the arc is the difference of the coordinate
Distancia(lat, lng, report) ==
    IF report.longitud = lng
    THEN (MetrosPorGrado * Abs(report.latitud - lat)) \div 1000
    ELSE (MetrosPorGrado * Abs(report.longitud - lng)) \div 1000

\* body('latitud').isFloat({ min: -90, max: 90 }), longitud within 180
ValidUbicacion(ubicacion) ==
    /\ Abs(ubicacion.latitud) <= 90000
    /\ Abs(ubicacion.longitud) <= 180000

\* req.body.latitud and longitud of POST /api/reports
UbicacionBodies ==
    {[latitud |-> 5, longitud |-> 0], [latitud |-> 10, longitud |-> 0],
     [latitud |-> 30, longitud |-> 0], [latitud |-> 0, longitud |-> 8],
     [latitud |-> 91000, longitud |-> 0]}

\* req.query.radio, or absent
RadioQueries == {Undefined, "0", "1", "2"}

\* parseFloat(radio), in tenths of a kilometre
parseFloat(value) ==
    CASE value = "0" -> 0
      [] value = "1" -> 10
      [] value = "2" -> 20

\* query('radio').optional().isFloat({ min: 0.1, max: 50 })
ValidRadio(radio) ==
    radio = Undefined \/ (parseFloat(radio) >= 1 /\ parseFloat(radio) <= 500)

\* Report.buscarPorUbicacion: ST_Distance_Sphere(...) <= radioKm * 1000,
\* with the radio in tenths of a kilometre
buscarPorUbicacion(table, lat, lng, radio) ==
    {id \in WherePublico(table) : Distancia(lat, lng, table[id]) <= radio * 100}

\* whereClause.latitud / longitud: Op.between lat -+ radio * 0.01
WhereUbicacion(table, lat, lng, radio) ==
    {id \in WherePublico(table) :
        /\ table[id].latitud >= lat - radio /\ table[id].latitud <= lat + radio
        /\ table[id].longitud >= lng - radio /\ table[id].longitud <= lng + radio}

\* the orders ORDER BY distancia ASC may give the rows: ties in any order
RECURSIVE OrderByDistancia(_, _, _, _)
OrderByDistancia(table, lat, lng, ids) ==
    IF ids = {} THEN {<< >>}
    ELSE LET nearest == {i \in ids : \A j \in ids :
                            Distancia(lat, lng, table[i]) <= Distancia(lat, lng, table[j])}
         IN  UNION {{<<i>> \o rows : rows \in OrderByDistancia(table, lat, lng, ids \ {i})} :
                        i \in nearest}

\* POST /api/reports by Ana at a place
CreateReportUbicacion ==
    \E ubicacion \in UbicacionBodies :
        LET id == seq.reports
            code == IF protect(users, AnaId) # 0 THEN protect(users, AnaId)
                    ELSE IF ~ValidUbicacion(ubicacion) THEN 400
                    ELSE 201
        IN  /\ code = 201 => id <= MaxUbicados
            /\ last' = Response("create", AnaId, IF code = 201 THEN id ELSE 0,
                                code, ubicacion, Undefined, NoUser)
            /\ IF code = 201
               THEN /\ reports' = reports @@
                        (id :> [NewReport("Bache en la calle", 1, TRUE, AnaId)
                                  EXCEPT !.latitud = ubicacion.latitud,
                                         !.longitud = ubicacion.longitud])
                    /\ seq' = [seq EXCEPT !.reports = id + 1]
               ELSE UNCHANGED <<reports, seq>>
            /\ UNCHANGED <<users, categories, pending, tokens, now, files>>

\* GET /api/reports?lat=0&lng=0&radio=..: page 1 of the default limit 20
GetReportsCerca ==
    \E radio \in RadioQueries :
        LET code == IF ~ValidRadio(radio) THEN 400 ELSE 200
            r == IF radio = Undefined THEN 50 ELSE parseFloat(radio)
            found == WhereUbicacion(reports, 0, 0, r)
        IN  \E rows \in OrderByDistancia(reports, 0, 0, found) :
                \* owner holds req.query
                /\ last' = Response("cerca", NoUser, 0, code,
                                    IF code = 200 THEN rows ELSE << >>,
                                    IF code = 200 THEN Cardinality(found) ELSE 0,
                                    [lat |-> 0, lng |-> 0, radio |-> r])
                /\ UNCHANGED <<users, categories, reports, seq, tokens, now,
                               pending, files>>

NextUbicacion ==
    \/ CreateReportUbicacion
    \/ GetReportsCerca

SpecUbicacion == InitSession /\ [][NextUbicacion]_vars

(***************************************************************************)
(* middleware/errorHandler.js: the body of the error response              *)
(***************************************************************************)
\* the codes the switch on err.code knows
StorageCodes ==
    {"ER_DUP_ENTRY", "ER_NO_REFERENCED_ROW_2", "ER_ROW_IS_REFERENCED_2",
     "ER_NO_SUCH_TABLE", "ER_BAD_FIELD_ERROR", "ER_PARSE_ERROR",
     "PROTOCOL_CONNECTION_LOST", "ER_CON_COUNT_ERROR", "ER_ACCESS_DENIED_ERROR"}

\* the err.status values the chain of else-ifs knows
KnownStatus == {429, 403, 401, 404, 422, 500}

\* the errors next(err) is called with: status 0 and message "" are unset;
\* none carries .errors or .sqlMessage
ThrownErrors ==
    [name : {"Error", "TypeError", "SequelizeUniqueConstraintError",
             "SequelizeForeignKeyConstraintError", "JsonWebTokenError",
             "TokenExpiredError", "MulterError"},
     code : {Undefined, "ER_DUP_ENTRY", "ER_NO_REFERENCED_ROW_2",
             "ER_ROW_IS_REFERENCED_2", "LIMIT_FILE_SIZE"},
     status : {0, 404, 500},
     message : {"", "Validation error",
                "Cannot read properties of undefined (reading 'includes')"},
     stack : {"at /app/src/routes/users.js:718:20"}]

\* errorHandler: error.message of the response
errorMessage(err) ==
    LET base == IF err.message # "" THEN err.message ELSE "Error interno del servidor"
        byCode ==
            CASE err.code = "ER_DUP_ENTRY" -> "Ya existe un registro con ese campo"
              [] err.code = "ER_NO_REFERENCED_ROW_2" ->
                    "Referencia inválida - el recurso relacionado no existe"
              [] err.code = "ER_ROW_IS_REFERENCED_2" ->
                    "No se puede eliminar - existen registros relacionados"
              [] err.code = "ER_NO_SUCH_TABLE" -> "Tabla no encontrada en la base de datos"
              [] err.code = "ER_BAD_FIELD_ERROR" -> "Campo no válido en la consulta"
              [] err.code = "ER_PARSE_ERROR" -> "Error en la consulta SQL"
              [] err.code = "PROTOCOL_CONNECTION_LOST" ->
                    "Conexión con la base de datos perdida"
              [] err.code = "ER_CON_COUNT_ERROR" ->
                    "Demasiadas conexiones a la base de datos"
              [] err.code = "ER_ACCESS_DENIED_ERROR" ->
                    "Error de autenticación con la base de datos"
              [] OTHER -> base
    IN  CASE err.name = "JsonWebTokenError" -> "Token no válido"
          [] err.name = "TokenExpiredError" -> "Token expirado"
          [] err.name = "MulterError" ->
                IF err.code = "LIMIT_FILE_SIZE" THEN "El archivo es demasiado grande"
                ELSE IF err.code = "LIMIT_FILE_COUNT" THEN "Demasiados archivos"
                ELSE IF err.code = "LIMIT_UNEXPECTED_FILE" THEN "Archivo inesperado"
                ELSE "Error al subir archivo"
          [] err.status = 429 -> "Demasiadas solicitudes, intenta de nuevo más tarde"
          [] err.status = 403 -> "No tienes permisos para realizar esta acción"
          [] err.status = 401 -> "No autorizado"
          [] err.status = 404 -> "Recurso no encontrado"
          [] err.status = 422 -> "Datos de entrada inválidos"
          [] err.status = 500 -> "Error interno del servidor"
          [] OTHER -> byCode

\* res.status(error.statusCode).json({ success: false, error, stack, code })
ErrorBody(err) ==
    [success |-> FALSE, error |-> errorMessage(err), stack |-> err.stack,
     code |-> err.code]

\* next(err) reaching the errorHandler mounted last on the app
ThrowError ==
    \E err \in ThrownErrors :
        /\ last' = Response("error", NoUser, 0, errorHandler(err), err,
                            ErrorBody(err), NoUser)
        /\ UNCHANGED <<users, categories, reports, seq, tokens, now, pending, files>>

NextErrores == ThrowError

SpecErrores == Init /\ [][NextErrores]_vars

(***************************************************************************)
(* middleware/upload.js                                                    *)
(*                                                                         *)
(* files is the upload directory.  A file on disk is named by the request  *)
(* that brought it, its place in req.files and what was appended to its    *)
(* path: "" (file.path), "_processed" or "_thumb".                         *)
(***************************************************************************)
File(n, i, sufijo) == [req |-> n, file |-> i, path |-> sufijo]

\* req.files of POST /api/reports by kind: an image sharp reads, an image
\* sharp throws on, a video
UploadBodies ==
    {<< >>, <<"imagen">>, <<"corrupta">>, <<"video">>,
     <<"imagen", "corrupta">>, <<"corrupta", "imagen">>}

\* what sharp rejects with
SharpError == [name |-> "Error", code |-> Undefined, status |-> 0]

\* uploadReportFiles: multer's diskStorage writes every file of the request
diskStorage(n, body) == {File(n, i, "") : i \in 1 .. Len(body)}

\* the first file of the request sharp throws on, 0 when there is none
FirstFailure(body) ==
    IF \E i \in 1 .. Len(body) : body[i] = "corrupta"
    THEN CHOOSE i \in 1 .. Len(body) :
            /\ body[i] = "corrupta"
            /\ \A j \in 1 .. i - 1 : body[j] # "corrupta"
    ELSE 0

\* processImage on the files multer stored: for each image, toFile(path +
\* '_processed'), unlink(path), rename to path, then the thumbnail; the
\* catch only calls next(error).  parcial: the toFile that threw had
\* already created its output.
processImage(n, body, parcial) ==
    LET failure == FirstFailure(body)
        done == IF failure = 0 THEN 1 .. Len(body) ELSE 1 .. failure - 1
    IN  [ok |-> failure = 0,
         written |-> {File(n, i, "_thumb") : i \in {j \in done : body[j] = "imagen"}}
                     \cup (IF failure # 0 /\ parcial
                           THEN {File(n, failure, "_processed")} ELSE {})]

\* POST /api/reports with files: protect, uploadReportFiles, processImage,
\* then the handler.  cleanupFiles is exported by the middleware and mounted
\* on no route.
UploadReport ==
    \E actor \in {NoUser, AnaId}, titulo \in {"Bache en la calle", ShortTitulo},
       categoria_id \in {1, 9}, body \in UploadBodies, parcial \in BOOLEAN :
        LET n == 1 + Cardinality({f.req : f \in files})
            result == processImage(n, body, parcial)
        IN  IF protect(users, actor) # 0
            THEN /\ PostReport(actor, titulo, categoria_id, Undefined, MaxReports)
                 /\ UNCHANGED files
            ELSE /\ body # << >> => n <= MaxUploads
                 /\ files' = files \cup diskStorage(n, body) \cup result.written
                 /\ IF result.ok
                    THEN PostReport(actor, titulo, categoria_id, Undefined, MaxReports)
                    ELSE /\ last' = Response("create", actor, 0, errorHandler(SharpError),
                                             titulo, Undefined, NoUser)
                         /\ UNCHANGED <<users, categories, reports, seq, pending,
                                        tokens, now>>

\* reports created with files
NextArchivos == UploadReport

SpecArchivos == InitSession /\ [][NextArchivos]_vars

(***************************************************************************)
(* routes/users.js                                                         *)
(***************************************************************************)
\* Report.count({ where: { usuario_id } })
ReportCountDe(table, usuario_id) ==
    Cardinality({id \in DOMAIN table : table[id].usuario_id = usuario_id})

\* req.params.id of DELETE /api/users/:id
UserParams == {SuperadminId, DeactivatedId, AnaId, BetoId, 9}

\* a delete that asks nothing of the caller nor of the account
DeleteUserCodeSinGuardas(table, reps, actor, id) ==
    IF id \notin DOMAIN table THEN 404 ELSE 200

\* the status DELETE /api/users/:id ends with
DeleteUserCode(table, reps, actor, id) ==
    IF protect(table, actor) # 0 THEN protect(table, actor)
    ELSE IF authorize(table[actor], {"admin_general", "superadmin"}) # 0 THEN 403
    ELSE IF id \notin DOMAIN table THEN 404
    ELSE IF id = actor THEN 400
    ELSE IF "roles" \notin DOMAIN table[id] THEN errorHandler(TypeError)
    ELSE IF "superadmin" \in table[id].roles THEN 400
    ELSE IF ReportCountDe(reps, id) > 0 THEN 400
    ELSE 200

\* DELETE /api/users/:id
DeleteUser ==
    \E actor \in Actors, id \in UserParams :
        LET code == DeleteUserCode(users, reports, actor, id)
        IN  /\ last' = Response("user-delete", actor, id, code,
                                ReportCountDe(reports, id), Undefined, NoUser)
            /\ users' = IF code = 200
                        THEN [u \in DOMAIN users \ {id} |-> users[u]]
                        ELSE users
            /\ UNCHANGED <<categories, reports, seq, tokens, now, pending, files>>

\* GET /api/users: no middleware stands before the handler, so the token the
\* caller presents (actor) is not read; the rows come without password
GetUsers ==
    \E actor \in ReadActors, limit \in {Undefined, "0"} :
        LET code == IF ~isInt(limit, 1, 100) THEN 400 ELSE 200
        IN  /\ last' = Response("users-list", actor, 0, code,
                                IF code = 200 THEN DOMAIN users ELSE {},
                                limit, NoUser)
            /\ UNCHANGED <<users, categories, reports, seq, tokens, now, pending, files>>

\* the accounts and the reports they own
NextUsuarios ==
    \/ CreateReportPrivacidad
    \/ DeleteUser
    \/ GetUsers

SpecUsuarios == InitSession /\ [][NextUsuarios]_vars

(***************************************************************************)
(* models/Category.js and routes/categories.js                             *)
(*                                                                         *)
(* A subcategory is modelled by its nombre, the only field the code        *)
(* compares.  Names are compared as the default postgres dialect and       *)
(* JavaScript compare them: case matters.                                  *)
(***************************************************************************)
\* String.prototype.toLowerCase on the names of the model
toLowerCase(s) ==
    CASE s = "Infraestructura" -> "infraestructura"
      [] s = "Basura" -> "basura"
      [] s = "BASURA" -> "basura"
      [] s = "Árboles" -> "árboles"
      [] s = "Parques" -> "parques"
      [] OTHER -> s

\* body('nombre').trim().isLength({ min: 2, max: 50 })
ValidNombre(nombre) == Len(nombre) >= 2 /\ Len(nombre) <= 50

CategoryIds == 1 .. MaxCategories

\* req.body.nombre of POST and PUT /api/categories
CategoryNombres == {"Parques", "BASURA", "P"}

\* req.body.subcategorias of POST /api/categories, by nombre
SubcategoriasBodies == {Undefined, <<"Juegos", "Juegos">>}

\* req.body.nombre of POST /api/categories/:id/subcategories
SubcategoriaNombres == {"Poda", "J"}

\* :name of DELETE /api/categories/:id/subcategories/:name
SubcategoriaParams == {"Poda", "Juegos"}

\* Category.findOne({ where: { nombre } })
FindByNombre(table, nombre, self) ==
    {id \in DOMAIN table \ {self} : table[id].nombre = nombre}

\* Category.prototype.hasSubcategory
hasSubcategory(category, subcategoryName) ==
    \E i \in 1 .. Len(category.subcategorias) :
        category.subcategorias[i] = subcategoryName

\* Category.prototype.addSubcategory: saved is FALSE when it throws
addSubcategory(category, subcategory) ==
    IF ~hasSubcategory(category, subcategory)
    THEN [saved |-> TRUE,
          category |-> [category EXCEPT !.subcategorias = Append(@, subcategory)]]
    ELSE [saved |-> FALSE, category |-> category]

\* Category.prototype.removeSubcategory
removeSubcategory(category, subcategoryName) ==
    [category EXCEPT
        !.subcategorias = SelectSeq(@, LAMBDA sub : sub # subcategoryName)]

\* Category.create({ nombre: nombre.toLowerCase(), ..., subcategorias || [] })
NewCategory(nombre, subcategorias) ==
    [nombre |-> toLowerCase(nombre),
     subcategorias |-> IF subcategorias = Undefined THEN << >> ELSE subcategorias]

\* Report.count({ where: { categoria_id } })
ReportCount(table, categoria_id) ==
    Cardinality({id \in DOMAIN table : table[id].categoria_id = categoria_id})

\* POST /api/categories
PostCategory ==
    \E nombre \in CategoryNombres, subcategorias \in SubcategoriasBodies :
        LET id == seq.categories
            code == IF ~ValidNombre(nombre) THEN 400
                    ELSE IF FindByNombre(categories, toLowerCase(nombre), 0) # {} THEN 400
                    ELSE 201
        IN  /\ code = 201 => id <= MaxCategories
            /\ last' = Response("category-create", NoUser, IF code = 201 THEN id ELSE 0,
                                code, nombre, subcategorias, NoUser)
            /\ IF code = 201
               THEN /\ categories' = categories @@ (id :> NewCategory(nombre, subcategorias))
                    /\ seq' = [seq EXCEPT !.categories = id + 1]
               ELSE UNCHANGED <<categories, seq>>
            /\ UNCHANGED <<users, reports, tokens, now, pending, files>>

\* PUT /api/categories/:id
PutCategory ==
    \E actor \in Actors, id \in CategoryIds, nombre \in {"BASURA", Undefined} :
        LET code == IF protect(users, actor) # 0 THEN protect(users, actor)
                    ELSE IF authorize(users[actor], {"admin_general", "superadmin"}) # 0
                    THEN 403
                    ELSE IF nombre # Undefined /\ ~ValidNombre(nombre) THEN 400
                    ELSE IF id \notin DOMAIN categories THEN 404
                    ELSE IF /\ nombre # Undefined
                            /\ toLowerCase(nombre) # categories[id].nombre
                            /\ FindByNombre(categories, toLowerCase(nombre), id) # {}
                    THEN 400
                    ELSE 200
        IN  /\ last' = Response("category-update", actor, id, code, nombre, Undefined, NoUser)
            /\ categories' = IF code = 200 /\ nombre # Undefined
                             THEN [categories EXCEPT ![id].nombre = toLowerCase(nombre)]
                             ELSE categories
            /\ UNCHANGED <<users, reports, seq, tokens, now, pending, files>>

\* POST /api/categories/:id/subcategories
PostSubcategory ==
    \E id \in CategoryIds, nombre \in SubcategoriaNombres :
        LET code == IF ~ValidNombre(nombre) THEN 400
                    ELSE IF id \notin DOMAIN categories THEN 404
                    ELSE IF hasSubcategory(categories[id], nombre) THEN 400
                    ELSE IF ~addSubcategory(categories[id], nombre).saved THEN 500
                    ELSE 200
        IN  /\ last' = Response("subcategory-add", NoUser, id, code, nombre, Undefined, NoUser)
            /\ categories' = IF code = 200
                             THEN [categories EXCEPT
                                     ![id] = addSubcategory(categories[id], nombre).category]
                             ELSE categories
            /\ UNCHANGED <<users, reports, seq, tokens, now, pending, files>>

\* a delete that does not count the reports of the category
DeleteCategoryCodeSinConteo(cats, reps, id) ==
    IF id \notin DOMAIN cats THEN 404 ELSE 200

\* the status DELETE /api/categories/:id ends with
DeleteCategoryCode(cats, reps, id) ==
    IF id \notin DOMAIN cats THEN 404
    ELSE IF ReportCount(reps, id) > 0 THEN 400
    ELSE 200

\* DELETE /api/categories/:id: the handler registered first, without
\* protect; the guarded one after it is never reached
DeleteCategory ==
    \E id \in CategoryIds :
        LET code == DeleteCategoryCode(categories, reports, id)
        IN  /\ last' = Response("category-delete", NoUser, id, code,
                                IF id \in DOMAIN categories
                                THEN ReportCount(reports, id) ELSE 0,
                                Undefined, NoUser)
            /\ categories' = IF code = 200
                             THEN [c \in DOMAIN categories \ {id} |-> categories[c]]
                             ELSE categories
            /\ UNCHANGED <<users, reports, seq, tokens, now, pending, files>>

\* DELETE /api/categories/:id/subcategories/:name.  Report.count filters on
\* a column subcategoria the Report model does not declare: the query fails
\* when the table was created from the model, and counts no row of the
\* model's inserts when the column exists.
DeleteSubcategory ==
    \E id \in CategoryIds, name \in SubcategoriaParams, columna \in BOOLEAN :
        LET code == IF id \notin DOMAIN categories THEN 404
                    ELSE IF ~hasSubcategory(categories[id], name) THEN 404
                    ELSE IF ~columna THEN 500
                    ELSE 200
        IN  /\ last' = Response("subcategory-remove", NoUser, id, code, name,
                                Undefined, NoUser)
            /\ categories' = IF code = 200
                             THEN [categories EXCEPT
                                     ![id] = removeSubcategory(categories[id], name)]
                             ELSE categories
            /\ UNCHANGED <<users, reports, seq, tokens, now, pending, files>>

\* the category routes, and reports that use the categories
NextCategorias ==
    \/ PostCategory
    \/ PutCategory
    \/ DeleteCategory
    \/ CreateReport

SpecCategorias == InitSession /\ [][NextCategorias]_vars

\* the subcategory routes
NextSubcategorias ==
    \/ PostCategory
    \/ PostSubcategory
    \/ DeleteSubcategory

SpecSubcategorias == Init /\ [][NextSubcategorias]_vars

\* the operations the routes mark Private (Admin)
NextSoloAdmin ==
    \/ GetUsers
    \/ DeleteCategory
    \/ PostSubcategory
    \/ DeleteSubcategory

SpecSoloAdmin == InitSession /\ [][NextSoloAdmin]_vars

(***************************************************************************)
(* Reports and categories in flight.                                       *)
(*                                                                         *)
(* POST /api/reports and PUT /api/reports/:id await the lookup of the      *)
(* category and then the INSERT or UPDATE; DELETE /api/categories/:id      *)
(* awaits the count of reports and then the DELETE.  The column            *)
(* reports.categoria_id is declared with references to categories.id, so   *)
(* the table carries the foreign key and the database checks it on every   *)
(* write; what it does to the referencing rows on a delete is left to the  *)
(* ORM's default and is drawn as either rule.                              *)
(***************************************************************************)
\* what the ORM rejects with when a write breaks a foreign key
SequelizeForeignKeyConstraintError ==
    [name |-> "SequelizeForeignKeyConstraintError", code |-> Undefined, status |-> 0]

\* a reports table without the foreign key
ForeignKeyCodeSinReferencia(cats, categoria_id, ok) == ok

\* references: { model: 'categories', key: 'id' } on an INSERT or UPDATE of
\* a report: ok when the category is there
ForeignKeyCode(cats, categoria_id, ok) ==
    IF categoria_id \notin DOMAIN cats
    THEN errorHandler(SequelizeForeignKeyConstraintError)
    ELSE ok

\* POST /api/reports and PUT /api/reports/:id by Ana up to the lookup of
\* the category
ReportFindCategory ==
    \E op \in {"create", "put"}, categoria_id \in {1, 2, 9} :
        LET id == IF op = "put" THEN 1 ELSE 0
            code == IF protect(users, AnaId) # 0 THEN protect(users, AnaId)
                    ELSE IF op = "put" /\ id \notin DOMAIN reports THEN 404
                    ELSE IF /\ op = "put"
                            /\ reports[id].usuario_id # AnaId
                            /\ ~isAdmin(users[AnaId]) THEN 403
                    ELSE IF categoria_id \notin DOMAIN categories THEN 400
                    ELSE 0
        IN  /\ FreeRequests # {}
            /\ IF code = 0
               THEN /\ pending' = pending \cup
                          {PendingReport(op, AnaId, id, [categoria_id |-> categoria_id],
                                         IF op = "put" THEN reports[id] ELSE Null)}
                    /\ UNCHANGED last
               ELSE /\ last' = Response(op, AnaId, id, code, Undefined, categoria_id, 0)
                    /\ UNCHANGED pending
            /\ UNCHANGED <<users, categories, reports, seq, tokens, now, files>>

\* the rest of the two handlers: Report.create or report.save() and the
\* answer; aux holds the category asked for, owner the request
ReportWrite ==
    \E r \in pending :
        LET create == r.op = "create"
            categoria_id == r.body.categoria_id
            id == IF create THEN seq.reports ELSE r.id
            instance == IF create
                        THEN NewReport("Bache en la calle", categoria_id, TRUE, r.actor)
                        ELSE [r.instance EXCEPT !.categoria_id = categoria_id]
            code == ForeignKeyCode(categories, categoria_id,
                                   IF create THEN 201 ELSE SaveCode(instance))
        IN  /\ r.op \in {"create", "put"}
            /\ code = 201 => id <= MaxReports
            /\ pending' = pending \ {r}
            /\ last' = Response(r.op, r.actor, IF code \in {200, 201} THEN id ELSE 0,
                                code, Undefined, categoria_id, r.req)
            /\ IF code = 201
               THEN /\ reports' = reports @@ (id :> instance)
                    /\ seq' = [seq EXCEPT !.reports = id + 1]
               ELSE /\ reports' = IF code = 200 /\ id \in DOMAIN reports
                                  THEN SaveReport(reports, id, instance)
                                  ELSE reports
                    /\ UNCHANGED seq
            /\ UNCHANGED <<users, categories, tokens, now, files>>

\* DELETE /api/categories/:id up to the count of the reports of the category
CategoryCount ==
    \E id \in {1, 2, 9} :
        LET code == IF id \notin DOMAIN categories THEN 404
                    ELSE IF ReportCount(reports, id) > 0 THEN 400
                    ELSE 0
        IN  /\ FreeRequests # {}
            /\ IF code = 0
               THEN /\ pending' = pending \cup
                          {PendingReport("category-delete", NoUser, id, Undefined,
                                         categories[id])}
                    /\ UNCHANGED last
               ELSE /\ last' = Response("category-delete", NoUser, id, code,
                                        IF id \in DOMAIN categories
                                        THEN ReportCount(reports, id) ELSE 0,
                                        Undefined, 0)
                    /\ UNCHANGED pending
            /\ UNCHANGED <<users, categories, reports, seq, tokens, now, files>>

\* the rest of the handler: category.destroy() and the answer.  When a
\* report has come to use the category, the foreign key refuses the DELETE
\* (NO ACTION) or takes the reports with it (CASCADE).
CategoryDestroy ==
    \E r \in pending, onDelete \in {"NO ACTION", "CASCADE"} :
        LET referenced == ReportCount(reports, r.id) > 0
            code == IF referenced /\ onDelete = "NO ACTION"
                    THEN errorHandler(SequelizeForeignKeyConstraintError)
                    ELSE 200
        IN  /\ r.op = "category-delete"
            /\ pending' = pending \ {r}
            /\ last' = Response("category-delete", NoUser, r.id, code,
                                ReportCount(reports, r.id), onDelete, r.req)
            /\ categories' = IF code = 200
                             THEN [c \in DOMAIN categories \ {r.id} |-> categories[c]]
                             ELSE categories
            /\ reports' = IF code = 200
                          THEN [i \in {j \in DOMAIN reports : reports[j].categoria_id # r.id}
                                  |-> reports[i]]
                          ELSE reports
            /\ UNCHANGED <<users, seq, tokens, now, files>>

\* reports written while categories are deleted
NextReferencias ==
    \/ ReportFindCategory
    \/ ReportWrite
    \/ CategoryCount
    \/ CategoryDestroy

SpecReferencias == InitSession /\ [][NextReferencias]_vars

(***************************************************************************)
(* The Report model called with the arguments its methods declare.         *)
(***************************************************************************)
ModelUsers == {AnaId, BetoId}

\* Report.create({ ..., usuario_id })
ReportCreate ==
    \E usuario_id \in ModelUsers :
        LET id == seq.reports
        IN  /\ id <= MaxReports
            /\ reports' = reports @@ (id :> NewReport("Bache en la calle", 1, TRUE, usuario_id))
            /\ seq' = [seq EXCEPT !.reports = id + 1]
            /\ last' = Response("Report.create", usuario_id, id, 200, Undefined, Undefined, usuario_id)
            /\ UNCHANGED <<users, categories, pending, tokens, now, files>>

\* the status and comment arguments of the calls
CambiarEstatusArgs ==
    {[nuevoEstatus |-> e, comentario |-> Undefined] : e \in Estatus} \cup
    {[nuevoEstatus |-> "resuelto", comentario |-> "Cuadrilla enviada"]}

\* report.cambiarEstatus(nuevoEstatus, comentario, multimedia, usuarioId)
CallCambiarEstatus ==
    \E id \in DOMAIN reports, args \in CambiarEstatusArgs, usuarioId \in {BetoId, NoUser} :
        LET nuevoEstatus == args.nuevoEstatus
            comentario == args.comentario
            result == cambiarEstatus(reports[id], nuevoEstatus, comentario, usuarioId)
            code == IF result.saved THEN SaveCode(result.report) ELSE 200
        IN  /\ result.saved => Len(reports[id].historial_estatus) < MaxHistorial
            /\ last' = Response("cambiarEstatus", usuarioId, id, code, nuevoEstatus,
                                reports[id].estatus, reports[id].usuario_id)
            /\ reports' = IF result.saved THEN SaveReport(reports, id, result.report)
                          ELSE reports
            /\ UNCHANGED <<users, categories, pending, seq, tokens, now, files>>

\* the users who vote
Votantes == {SuperadminId, AnaId, BetoId}

\* report.votar(usuarioId, tipo)
CallVotar ==
    \E id \in DOMAIN reports, usuarioId \in Votantes,
       tipo \in {"positivo", "negativo", "like"} :
        LET instance == votar(reports[id], usuarioId, tipo, now)
        IN  /\ last' = Response("votar", usuarioId, id, SaveCode(instance), tipo,
                                VotoDe(reports[id], usuarioId), reports[id].usuario_id)
            /\ reports' = SaveReport(reports, id, instance)
            /\ UNCHANGED <<users, categories, pending, seq, tokens, now, files>>

\* status changes through the model method
NextEstatus ==
    \/ ReportCreate
    \/ CallCambiarEstatus

SpecEstatus == InitSession /\ [][NextEstatus]_vars

\* votes through the model method
NextVotos ==
    \/ ReportCreate
    \/ CallVotar

SpecVotos == InitSession /\ [][NextVotos]_vars

(***************************************************************************)
(* Properties of the reports.                                              *)
(***************************************************************************)
\* how many entries of a vote array are the user's
Count(votes, usuarioId) ==
    Cardinality({i \in 1..Len(votes) : votes[i].usuario_id = usuarioId})

\* C1: in every report the status of the last entry of historial_estatus is
\* the report's current estatus (refuted by PUT /:id, which assigns estatus
\* and saves without touching the history).
C1_HistorialSigueEstatus ==
    \A id \in DOMAIN reports :
        LET h == reports[id].historial_estatus
        IN  /\ Len(h) >= 1
            /\ h[Len(h)].estatus = reports[id].estatus

\* C2: every report has a history of at least one entry, whose first entry
\* carries the initial status and the owner as actor; right after a create
\* request the history is exactly that entry; no later request on the report
\* empties the history.
C2_HistorialSembrado ==
    /\ \A id \in DOMAIN reports :
           LET h == reports[id].historial_estatus
           IN  /\ Len(h) >= 1
               /\ h[1].estatus = "nuevo"
               /\ h[1].cambiado_por = reports[id].usuario_id
    /\ (last.op = "create" /\ last.code = 201) =>
           /\ last.id \in DOMAIN reports
           /\ reports[last.id].usuario_id = last.actor
           /\ reports[last.id].estatus = "nuevo"
           /\ Len(reports[last.id].historial_estatus) = 1

\* C2 witness: a report whose owner has changed it through PUT /:id still
\* has its seeded history.
C2_Witness ==
    /\ last.op = "put" /\ last.code = 200 /\ last.arg = "en_proceso"
    /\ last.id \in DOMAIN reports
    /\ last.actor = reports[last.id].usuario_id
    /\ Len(reports[last.id].historial_estatus) = 1
    /\ reports[last.id].historial_estatus[1].cambiado_por = last.actor

\* C3: a cambiarEstatus call appends at most one history entry, and a call
\* that follows a resolved call on the same report with the same status
\* resolves, goes through no save() and leaves every report as it was.
C3_SegundaLlamadaSinEfecto ==
    [][last'.op = "cambiarEstatus" =>
         /\ last'.id \in DOMAIN reports
         /\ Len(reports'[last'.id].historial_estatus)
                <= Len(reports[last'.id].historial_estatus) + 1
         /\ (/\ last.op = "cambiarEstatus" /\ last.code = 200
             /\ last.id = last'.id /\ last.arg = last'.arg) =>
                /\ last'.code = 200
                /\ ~cambiarEstatus(reports[last'.id], last'.arg, Undefined, last'.actor).saved
                /\ reports' = reports]_vars

\* C3 witness: a status change that appended the second history entry has
\* been followed by a call with the same status.
C3_Witness ==
    /\ last.op = "cambiarEstatus" /\ last.code = 200
    /\ last.aux = last.arg
    /\ last.id \in DOMAIN reports
    /\ Len(reports[last.id].historial_estatus) = 2
    /\ reports[last.id].historial_estatus[2].estatus = last.arg
    /\ reports[last.id].estatus = last.arg

\* C4: after a vote request that answered 200 the actor is in the vote
\* array of the requested kind (refuted: the route accepts like / dislike,
\* votar files only positivo / negativo).
C4_VotoEnConjuntoPedido ==
    (last.op = "vote" /\ last.code = 200 /\ last.id \in DOMAIN reports) =>
        VotoDe(reports[last.id], last.actor) =
            (IF last.arg = "like" THEN "positivo" ELSE "negativo")

\* C5: no user has more than one vote in the two vote arrays of a report
\* taken together, and after votar(u, positivo) or votar(u, negativo) the
\* user has exactly one vote, in the array asked for.
C5_VotoExclusivo ==
    /\ \A id \in DOMAIN reports, u \in DOMAIN users :
           Count(reports[id].votos.positivos, u)
               + Count(reports[id].votos.negativos, u) <= 1
    /\ (last.op = "votar" /\ last.arg \in {"positivo", "negativo"}) =>
           /\ last.id \in DOMAIN reports
           /\ Count(reports[last.id].votos.positivos, last.actor)
                  + Count(reports[last.id].votos.negativos, last.actor) = 1
           /\ VotoDe(reports[last.id], last.actor) = last.arg

\* C5 witness: a user who had voted positivo has voted negativo.
C5_Witness ==
    /\ last.op = "votar" /\ last.aux = "positivo" /\ last.arg = "negativo"
    /\ last.id \in DOMAIN reports
    /\ VotoDe(reports[last.id], last.actor) = "negativo"

\* C6: a comment request that passes authentication, validation and the
\* permission check answers 200 and leaves as the last comment of the
\* report an entry with the actor as author and the text sent as content
\* (refuted: the route hands agregarComentario one object, the entry fails
\* isValidComentarios and save() rejects).
C6_ComentarioAgregado ==
    (last.op = "comment" /\ last.code \notin {400, 401, 403, 404}) =>
        /\ last.code = 200
        /\ last.id \in DOMAIN reports
        /\ LET c == reports[last.id].comentarios
           IN  /\ Len(c) >= 1
               /\ c[Len(c)].usuario_id = last.actor
               /\ c[Len(c)].contenido = last.arg

\* C7: an authenticated request to the moderation route, guarded by
\* authorize('admin_operativo', 'admin_general', 'superadmin'), is answered
\* 403 exactly when the stored role of the actor is none of the three
\* (refuted: authorize reads req.user.roles, which no user has).
C7_AuthorizePorRol ==
    (last.op = "moderate" /\ last.code # 401) =>
        (last.code = 403 <=> users[last.actor].role \notin StatusRoles)

\* C8: PUT /:id, DELETE /:id and PUT /:id/status answer 403 exactly when the
\* actor is neither the owner of the report nor of a role in the admin set
\* (refuted: PUT /:id and DELETE /:id test for the roles admin and
\* superadmin only).
C8_PermisoDeMutacion ==
    (last.op \in {"put", "status", "delete"} /\ last.code \notin {400, 401, 404}) =>
        (last.code = 403 <=>
            ~(\/ last.actor = last.owner
              \/ users[last.actor].role \in StatusRoles))

(***************************************************************************)
(* Properties of the accounts.                                             *)
(***************************************************************************)
\* C9: a reset request with a valid password is answered 400 only when the
\* token presented is the original of no unexpired stored digest (refuted:
\* the route looks the presented value up as it is, the column holds the
\* digest).
C9_TokenOriginalAceptado ==
    (last.op = "reset-password" /\ last.code = 400 /\ ValidPassword(last.aux)) =>
        ~\E id \in DOMAIN users :
            /\ users[id].reset_password_token = sha256(last.arg)
            /\ users[id].reset_password_expire > now

\* C10: a login answers 200 exactly when the email is an account's, the
\* password matches and the account is active, and 401 otherwise, with the
\* message of invalid credentials or of the deactivated account; a failing
\* login changes no user and issues no token; a successful one issues a
\* token for the account and sets its last_login to the time of the login,
\* changing nothing else; no other step changes a last_login.
C10_LoginSoloConCredenciales ==
    [][/\ (last'.op = "login" /\ now' = now) =>
            LET found == FindByEmail(users, last'.aux)
                match == \E id \in found : matchPassword(users[id], last'.arg)
                ok == \E id \in found : /\ matchPassword(users[id], last'.arg)
                                        /\ users[id].is_active
            IN  /\ last'.code = IF ok THEN 200 ELSE 401
                /\ LoginMessage(users, last'.aux, last'.arg) =
                       IF ok THEN Undefined
                       ELSE IF match THEN "Tu cuenta ha sido desactivada"
                       ELSE "Credenciales inválidas"
                /\ ~ok => (users' = users /\ tokens' = tokens)
                /\ ok => /\ last'.id \in found
                         /\ last'.id \in tokens'
                         /\ users' = [users EXCEPT ![last'.id].last_login = now]
       /\ \A id \in DOMAIN users :
            users'[id].last_login # users[id].last_login =>
                (last'.op = "login" /\ last'.code = 200 /\ last'.id = id)]_vars

\* C10 witness: the superadmin has logged in and the deactivated account
\* has been refused with its right password.
C10_Witness ==
    /\ last.op = "login" /\ last.code = 401 /\ last.id = DeactivatedId
    /\ matchPassword(users[DeactivatedId], last.arg)
    /\ users[DeactivatedId].last_login = NoDate
    /\ DeactivatedId \notin tokens
    /\ users[SuperadminId].last_login # NoDate
    /\ SuperadminId \in tokens

C12_EmailUnicoConcurrente ==
    [][/\ \A a, b \in DOMAIN users' :
              a # b => users'[a].email # users'[b].email
       /\ \A r \in pending \ pending' :
              EmailTaken(users, r.email, r.id) =>
                  /\ last'.code \in {400, 409}
                  /\ users' = users]_vars

(***************************************************************************)
(* Properties of the categories.                                           *)
(***************************************************************************)
\* C13: deleting a category that reports refer to fails with status 400 and
\* leaves the categories and the reports as they were; deleting a category
\* no report refers to removes that category and nothing else.
C13_BorradoDeCategoria ==
    [][(last'.op = "category-delete" /\ last'.id \in DOMAIN categories) =>
          IF \E r \in DOMAIN reports : reports[r].categoria_id = last'.id
          THEN /\ last'.code = 400
               /\ categories' = categories
               /\ reports' = reports
          ELSE /\ last'.code = 200
               /\ DOMAIN categories' = DOMAIN categories \ {last'.id}
               /\ \A c \in DOMAIN categories' : categories'[c] = categories[c]
               /\ reports' = reports]_vars

C13_Witness ==
    /\ last.op = "category-delete"
    /\ last.code = 400
    /\ last.arg = 1
    /\ last.id \in DOMAIN categories
    /\ \E r \in DOMAIN reports : reports[r].categoria_id = last.id
    /\ \E c \in CategoryIds : c < seq.categories /\ c \notin DOMAIN categories

\* C14: in every state, after the seeding by createInitialData and after any
\* create or update, every stored category name equals its lower-case form
\* and no two categories have names that are equal ignoring case.
C14_NombresEnMinusculas ==
    /\ \A c \in DOMAIN categories :
           categories[c].nombre = toLowerCase(categories[c].nombre)
    /\ \A a, b \in DOMAIN categories :
           a # b => toLowerCase(categories[a].nombre) # toLowerCase(categories[b].nombre)

\* C15: after any category create, addSubcategory and removeSubcategory no
\* category holds two subcategories with the same name, and adding a
\* subcategory whose name the category already holds fails and leaves the
\* list as it was.
C15_SubcategoriasSinRepetir ==
    [][/\ \A c \in DOMAIN categories' :
              \A i, j \in 1 .. Len(categories'[c].subcategorias) :
                  i # j => categories'[c].subcategorias[i] # categories'[c].subcategorias[j]
       /\ (/\ last'.op = "subcategory-add"
           /\ last'.id \in DOMAIN categories
           /\ hasSubcategory(categories[last'.id], last'.arg))
              => (last'.code = 400 /\ categories' = categories)]_vars

(***************************************************************************)
(* Properties of the reads.                                                *)
(***************************************************************************)
\* C16: GET /reports accepts a limit in 1..100 and a page of 1 or more, with
\* page 1 and limit 20 when absent; its answer reports the total of the
\* public reports and pages = ceil(total / limit), returns at most limit
\* rows, and the rows are those at offsets (page - 1) * limit up to
\* page * limit - 1 of the public reports, newest first.
C16_Paginacion ==
    last.op = "list" =>
        LET query == last.owner
            okPage == query.page \in {Undefined, "2", "3", "4"}
            okLimit == query.limit \in {Undefined, "2"}
            pg == last.aux
            rows == last.arg
            all == Descending({id \in DOMAIN reports : reports[id].is_publico})
            first == (pg.page - 1) * pg.limit
        IN  /\ last.code = IF okPage /\ okLimit THEN 200 ELSE 400
            /\ last.code = 200 =>
                 /\ pg.page = CASE query.page = Undefined -> 1
                                [] query.page = "2" -> 2
                                [] query.page = "3" -> 3
                                [] query.page = "4" -> 4
                 /\ pg.limit = IF query.limit = Undefined THEN 20 ELSE 2
                 /\ pg.total = Len(all)
                 /\ pg.pages >= 0
                 /\ pg.pages * pg.limit >= pg.total
                 /\ (pg.pages - 1) * pg.limit < pg.total
                 /\ Len(rows) <= pg.limit
                 /\ Len(rows) = Cardinality({k \in 1 .. pg.limit : first + k <= pg.total})
                 /\ \A k \in 1 .. Len(rows) : rows[k] = all[first + k]

C16_Witness ==
    /\ last.op = "list"
    /\ last.code = 200
    /\ last.owner = [page |-> Undefined, limit |-> "2"]
    /\ last.aux = [page |-> 1, limit |-> 2, total |-> 5, pages |-> 3]
    /\ Len(last.arg) = 2
    /\ Cardinality(DOMAIN reports) = 5

\* C17: a report that is not public is disclosed only to its owner: the rows
\* of GET /reports are public reports, and GET /reports/:id on a report that
\* is not public answers 403 unless the caller is authenticated as the user
\* the report belongs to; without a token, or with the token of an account
\* that is not active, the caller is not the owner.
C17_SoloElDuenoVeLoPrivado ==
    [][/\ (last'.op = "list" /\ last'.code = 200) =>
              \A k \in 1 .. Len(last'.arg) : reports[last'.arg[k]].is_publico
       /\ (last'.op = "read" /\ last'.id \in DOMAIN reports
                             /\ ~reports[last'.id].is_publico) =>
              LET caller == last'.aux
                  owner == /\ caller = reports[last'.id].usuario_id
                           /\ caller \in tokens
                           /\ users[caller].is_active
              IN  IF owner
                  THEN last'.code = 200 /\ last'.arg.usuario_id = caller
                  ELSE last'.code = 403]_vars

C17_Witness ==
    /\ last.op = "read"
    /\ last.code = 403
    /\ last.aux = BetoId
    /\ last.owner = AnaId
    /\ ~reports[last.id].is_publico
    /\ reports[last.id].visitas = 1

C19_ModeracionAplicada ==
    [][(/\ last'.op = "moderate"
        /\ protect(users, last'.actor) = 0
        /\ users[last'.actor].role \in StatusRoles
        /\ last'.id \in DOMAIN reports) =>
          LET id == last'.id
              accion == last'.arg
              razon == last'.aux
          IN  /\ last'.code = 200
              /\ accion = "eliminar" => id \notin DOMAIN reports'
              /\ accion # "eliminar" => id \in DOMAIN reports'
              /\ accion = "aprobar" => reports'[id].is_publico
              /\ accion = "rechazar" => ~reports'[id].is_publico
              /\ (accion # "eliminar" /\ razon # Undefined) =>
                    LET antes == reports[id].comentarios
                        despues == reports'[id].comentarios
                    IN  /\ Len(despues) = Len(antes) + 1
                        /\ SubSeq(despues, 1, Len(antes)) = antes
                        /\ despues[Len(despues)].usuario_id = last'.actor
                        /\ despues[Len(despues)].contenido = "[MODERACIÓN] " \o razon
              /\ (accion # "eliminar" /\ razon = Undefined) =>
                    reports'[id].comentarios = reports[id].comentarios]_vars

\* C20: an assignment requested by an administrator on an existing report
\* succeeds and sets asignado_a exactly when the assignee exists and has an
\* administrator role; otherwise it is answered with a client error (4xx) and
\* the report is unchanged.
C20_AsignacionSoloAAdministradores ==
    [][(/\ last'.op = "assign"
        /\ protect(users, last'.actor) = 0
        /\ UserIsAdmin(users[last'.actor])
        /\ last'.id \in DOMAIN reports) =>
          LET id == last'.id
              asignado_a == last'.arg
          IN  IF asignado_a \in DOMAIN users /\ UserIsAdmin(users[asignado_a])
              THEN /\ last'.code = 200
                   /\ reports' = [reports EXCEPT ![id].asignado_a = asignado_a]
              ELSE /\ last'.code \in 400 .. 499
                   /\ reports' = reports]_vars

(***************************************************************************)
(* Properties of the user administration.                                  *)
(***************************************************************************)
\* C21: every report's usuario_id names a row of users, and a DELETE
\* /users/:id aimed at a user who owns reports, at the caller's own account
\* or at a superadmin is rejected and leaves the users table as it was.
C21_UsuarioConReportesNoSeBorra ==
    [][/\ \A r \in DOMAIN reports' : reports'[r].usuario_id \in DOMAIN users'
       /\ (/\ last'.op = "user-delete"
           /\ last'.id \in DOMAIN users
           /\ \/ \E r \in DOMAIN reports : reports[r].usuario_id = last'.id
              \/ last'.id = last'.actor
              \/ users[last'.id].role = "superadmin")
              => (last'.code >= 400 /\ users' = users)]_vars

C21_Witness ==
    /\ last.op = "user-delete"
    /\ last.actor = SuperadminId
    /\ last.id = AnaId
    /\ last.arg = 1
    /\ last.code >= 400
    /\ \E r \in DOMAIN reports : reports[r].usuario_id = AnaId
    /\ AnaId \in DOMAIN users

\* C22: listing the users, deleting a category and adding or removing a
\* subcategory are not performed (an error status, nothing changed, nothing
\* returned) for a caller who is not authenticated as an administrator.
C22_SoloAdministradores ==
    [][(/\ last'.op \in {"users-list", "category-delete",
                         "subcategory-add", "subcategory-remove"}
        /\ ~(/\ protect(users, last'.actor) = 0
             /\ UserIsAdmin(users[last'.actor])))
          => /\ last'.code >= 400
             /\ categories' = categories
             /\ last'.op = "users-list" => last'.arg = {}]_vars

(***************************************************************************)
(* Properties of the upload directory.                                     *)
(***************************************************************************)
\* C23: a POST /api/reports that ends in an error response (status >= 400),
\* a failure of the image processing included, leaves in the upload
\* directory no file that was not there before the request.
C23_SinArchivosHuerfanos ==
    [][(last'.op = "create" /\ last'.code >= 400) => files' \subseteq files]_vars

(***************************************************************************)
(* Properties of the error responses.                                      *)
(***************************************************************************)
\* C24: an error with no known storage code, no auth-library or upload name
\* and no known status is answered 500 with the generic message, whatever
\* its own message says.
C24_MensajeGenerico ==
    (/\ last.op = "error"
     /\ last.arg.code \notin StorageCodes
     /\ last.arg.name \notin {"JsonWebTokenError", "TokenExpiredError", "MulterError"}
     /\ last.arg.status \notin KnownStatus)
        => /\ last.code = 500
           /\ last.aux.error = "Error interno del servidor"

(***************************************************************************)
(* Properties of the search by location.                                   *)
(***************************************************************************)
\* C25: a search around a centre with a radio answers exactly the public
\* reports whose great-circle distance to the centre is within the radio,
\* the nearer first.
C25_SoloLosCercanos ==
    (last.op = "cerca" /\ last.code = 200)
        => /\ {last.arg[i] : i \in DOMAIN last.arg}
                = buscarPorUbicacion(reports, last.owner.lat, last.owner.lng,
                                      last.owner.radio)
           /\ \A i, j \in DOMAIN last.arg :
                 i < j => Distancia(last.owner.lat, last.owner.lng, reports[last.arg[i]])
                             <= Distancia(last.owner.lat, last.owner.lng,
                                          reports[last.arg[j]])

C27_CambioRegistraAutor ==
    [][/\ \A id \in DOMAIN reports' : isValidHistorial(reports'[id].historial_estatus)
       /\ (/\ last'.op = "status"
           /\ last'.code \notin {400, 401, 403, 404}
           /\ last'.id \in DOMAIN reports) =>
             LET h == reports[last'.id].historial_estatus
                 hh == reports'[last'.id].historial_estatus
             IN  /\ last'.code = 200
                 /\ last'.arg # reports[last'.id].estatus =>
                       /\ Len(hh) = Len(h) + 1
                       /\ hh[Len(hh)].estatus = last'.arg
                       /\ hh[Len(hh)].cambiado_por = last'.actor]_vars

\* C28: every GET /api/reports/:id that completes with 200 leaves the
\* stored visitas one higher than it was when the request completed, so n
\* reads raise it by n however they interleave.
C28_NingunaVisitaPerdida ==
    [][\A r \in pending \ pending' :
          (r.op = "read" /\ r.id \in DOMAIN reports /\ last'.code = 200)
            => reports'[r.id].visitas = reports[r.id].visitas + 1]_vars

(***************************************************************************)
(* Properties of the references between the tables.                        *)
(***************************************************************************)
\* C29: however the creates and updates of reports interleave with the
\* deletes of categories, every stored report names a category that exists.
C29_CategoriaExistente ==
    \A id \in DOMAIN reports : reports[id].categoria_id \in DOMAIN categories

\* C29 witness: a create that found its category was overtaken by the delete
\* of that category and refused by the foreign key.
C29_Witness ==
    /\ last.op = "create"
    /\ last.code = 500
    /\ last.aux \notin DOMAIN categories
    /\ \A id \in DOMAIN reports : reports[id].categoria_id # last.aux

(***************************************************************************)
(* Properties of the rejected requests.                                    *)
(***************************************************************************)
\* C30: a PUT /:id, DELETE /:id, PUT /:id/status, POST /:id/comments or POST
\* /:id/vote that is answered 400, 403 or 404 leaves every report as it was
\* and deletes no row.
C30_RechazoSinEfecto ==
    [][(/\ last'.op \in {"put", "delete", "status", "comment", "vote"}
        /\ last'.code \in {400, 403, 404})
          => reports' = reports]_vars

\* C30 witness: a report that was changed by its owner has then been the
\* target of a request of another user that was answered 403.
C30_Witness ==
    /\ last.op \in {"put", "delete", "status", "comment", "vote"}
    /\ last.code = 403
    /\ last.id \in DOMAIN reports
    /\ last.actor # reports[last.id].usuario_id
    /\ reports[last.id].estatus = "en_proceso"

====
